---- MODULE Spec2Model ----
(***************************************************************************)
(* Model of the alert Monitor of vps-monitor (package alerts, stored in    *)
(* src/home/internal/api/handlers.go from line 331 on): Start / Stop, the  *)
(* monitorLoop goroutine with its ticker, checkAll with its two phases     *)
(* checkContainerStates and checkResourceThresholds, triggerAlert and the  *)
(* webhook goroutines it starts.  A goroutine takes one step per call that *)
(* blocks or touches shared data: a Docker query, m.statesMu.Lock(),       *)
(* m.history.Add, the `go` statement of triggerAlert, the deferred Unlock. *)
(*                                                                         *)
(* Abstractions, all of them of data no decision of the code reads:        *)
(*  - an Alert keeps ID, Type, ContainerID, Host, Value and Threshold;     *)
(*    Message, ContainerName and Timestamp are dropped;                    *)
(*  - uuid.New() is a counter (nextId): fresh and unique; the id is drawn   *)
(*    in the step that adds the alert to the history;                      *)
(*  - percentages are integers (the code compares float64 with >);         *)
(*  - the Docker collaborator (ListContainersAllHosts,                     *)
(*    GetContainerStatsOnce) answers nondeterministically from the sets    *)
(*    the actions are given.                                               *)
(***************************************************************************)
EXTENDS Integers, Sequences, FiniteSets, TLC

\* ------------------------------------------------------------------ bounds
\* Start() is called at most MaxStarts times in Spec and at most MaxLoops
\* times in SpecLoops; the tickers of Spec fire at most MaxTicks times in all,
\* the ticker of SpecLive and SpecHalt at most MaxLiveTicks times, and the
\* ticker of SpecCycles at most MaxCycleTicks times.
MaxStarts == 1
MaxLoops == 2
MaxTicks == 1
MaxLiveTicks == 2
MaxCycleTicks == 3
\* the tickers of SpecLoops fire at most MaxLoopsTicks times in all
MaxLoopsTicks == 1
\* the ticker of SpecFleet fires at most MaxFleetTicks times, that of
\* SpecStats at most MaxStatsTicks times and that of SpecDispatch at most
\* MaxDispatchTicks times
MaxFleetTicks == 1
MaxStatsTicks == 2
MaxDispatchTicks == 2
\* the ticker of SpecWebhooks fires at most MaxWebhookTicks times
MaxWebhookTicks == 2
\* SpecStore: an id gets at most MaxSamples samples between two clean-ups, and
\* the clock stops at MaxClock seconds
MaxSamples == 1
MaxClock == 2
\* SpecSampler: the clock stops at minute MaxMinutes; SpecWindow: at minute
\* MaxWindowMinutes
MaxMinutes == 721
MaxWindowMinutes == 12
\* SpecLog: at most MaxAlerts alerts are triggered and MaxLogAcks acknowledge
\* calls made; SpecAcks: at most MaxAckAlerts alerts and MaxAcks calls
MaxAlerts == 101
MaxLogAcks == 1
MaxAckAlerts == 2
MaxAcks == 2
\* SpecSkew: the id gets at most MaxSkewSamples samples, stamped 0 to
\* MaxSkewClock, and the clock stops at MaxSkewClock
MaxSkewSamples == 3
MaxSkewClock == 2
\* SpecLocks: an id gets at most MaxLockSamples samples between two clean-ups
MaxLockSamples == 1
\* the ticker of SpecOutage fires at most MaxOutageTicks times
MaxOutageTicks == 2
\* the ticker of SpecPairs fires at most MaxPairTicks times
MaxPairTicks == 1
\* SpecOps: the API gets at most MaxRequests stop or restart requests
MaxRequests == 2

\* --------------------------------------------------------------- constants
\* NewAlertHistory(100)
HistoryCapacity == 100
\* parseAlertConfig defaults
DefaultCPUThreshold == 80
DefaultMemoryThreshold == 90
\* the default CheckInterval, in seconds
DefaultCheckInterval == 30

VARIABLES
    config,          \* m.config: the AlertConfig the Monitor was built with
    starts,          \* number of Start() calls made so far
    stopPc,          \* Stop(): "none" not called, "waiting" in wg.Wait(), "returned"
    stopCh,          \* m.stopCh: "open" or "closed"
    wg,              \* m.wg counter
    pc,              \* pc[i]: position of the i-th monitorLoop goroutine
    ticker,          \* ticker[i]: "none", "running", "stopped"
    tickPending,     \* tickPending[i]: a tick is buffered in ticker.C (capacity 1)
    ticksFired,      \* ticksFired[i]: ticks the i-th ticker has produced
    locals,          \* locals[i]: the local variables of the phase of checkAll
                     \* loop i is in
    containerStates, \* m.containerStates
    history,         \* m.history: the AlertHistory entries, oldest first
    webhooks,        \* alerts handed to a SendWebhook goroutine, in order
    outcomes,        \* outcomes[n]: how the goroutine of webhooks[n] ended, for
                     \* those that have ended
    nextId,          \* number of ids drawn from uuid.New()
    \* observers: they record what happened and no action reads them
    cyc,             \* cyc[i]: record of the check cycle loop i is in
    cyclesStarted,   \* cyclesStarted[i]: checkAll calls begun by loop i
    cyclesDone,      \* cyclesDone[i]: checkAll calls of loop i that returned
    ticksConsumed,   \* ticksConsumed[i]: receives from ticker.C by loop i
    atStop,          \* the loops that were inside checkAll (inFlight), and those
                     \* with a tick buffered (due), when Stop() closed stopCh
    obs,             \* obs[k]: the last observations of key k
    gone,            \* keys deleted by the clean-up and not listed since
    lost,            \* lost[k]: the state key k was tracked in when the clean-up
                     \* deleted it because its host was missing from the answer,
                     \* for the hosts that have not answered since
    \* the stats HistoryManager (package stats) and its callers
    containers,      \* hm.containers: containerID -> ContainerHistory
    hmMu,            \* hm.mu, the RWMutex of the collection
    clock,           \* time.Now(): the wall clock, in seconds
    call,            \* call[p]: the HistoryManager call goroutine p is in
    recorded,        \* observer: recorded[id] is the samples RecordStats has
                     \* appended for id since CleanupContainer(id) last ran
    \* the callers of the AlertHistory
    ackRet,          \* the acknowledge calls made so far and what the last returned
    \* the start of the program: the environment, NewConfig, NewRouter
    env,             \* env[r]: the environment variables of run r
    loaded,          \* loaded[r]: the AlertConfig parseAlertConfig returned
    view,            \* view[r]: the AlertConfigResponse NewRouter built
    \* the container handlers of the API
    requests         \* requests[n]: the n-th stop or restart request and how far
                     \* its handler and its Docker operation have come

dataVars == <<containerStates, history, webhooks, nextId, outcomes>>
obsVars == <<cyc, cyclesStarted, cyclesDone, ticksConsumed, atStop, obs, gone, lost>>
storeVars == <<containers, hmMu, clock, call, recorded>>

logVars == <<ackRet>>
loadVars == <<env, loaded, view>>
apiVars == <<requests>>

\* what the Monitor leaves alone
restVars == <<storeVars, logVars, loadVars, apiVars>>

\* the Monitor's own state
monitorVars == <<config, starts, stopPc, stopCh, wg, pc, ticker, tickPending,
                 ticksFired, locals, dataVars, obsVars>>

\* what the HistoryManager leaves alone
storeFrame == <<monitorVars, logVars, loadVars, apiVars>>

vars == <<monitorVars, restVars>>

Loops == 1..MaxLoops

\* ------------------------------------------------------------- data model
\* models.AlertType values
AlertContainerStopped == "container_stopped"
AlertContainerStarted == "container_started"
AlertCPUThreshold == "cpu_threshold"
AlertMemoryThreshold == "memory_threshold"

LifecycleTypes == {AlertContainerStopped, AlertContainerStarted}
ThresholdTypes == {AlertCPUThreshold, AlertMemoryThreshold}

Hosts == {"h1", "h2"}
\* the container id a host may report (the same id on both hosts)
ContainerIDs == {"c1"}

\* key := fmt.Sprintf("%s:%s", hostName, ctr.ID)
Key(hostName, id) == hostName \o ":" \o id

AllKeys == {Key(h, id) : h \in Hosts, id \in ContainerIDs}

\* the answers of ListContainersAllHosts: err # nil, or a containersMap
ListErr == [Err |-> TRUE, Map |-> <<>>]
ListOk(containersMap) == [Err |-> FALSE, Map |-> containersMap]
\* the answers of GetContainerStatsOnce: err # nil, or the two percentages
StatsErr == [Err |-> TRUE, CPUPercent |-> 0, MemoryPercent |-> 0]
StatsOk(cpu, mem) == [Err |-> FALSE, CPUPercent |-> cpu, MemoryPercent |-> mem]
\* "no value" for an optional containersMap or tracked map: the empty
\* sequence, a value v being <<v>>
NoSnap == <<>>
NoAlert == "none"

\* containersMap values: host -> list of containers, for the hosts of H that
\* answered, each reporting nothing or one container in a state of S
SnapshotsOver(H, S) ==
    UNION {[hs -> {<<>>} \cup {<<[ID |-> id, State |-> s]>> : id \in ContainerIDs, s \in S}]
           : hs \in SUBSET H}

\* the orders in which `for hostName, containers := range containersMap`
\* may visit the hosts of a map (Go does not fix the order)
Orders(S) ==
    {o \in [1..Cardinality(S) -> S] : \A i, j \in 1..Cardinality(S) : i # j => o[i] # o[j]}

RECURSIVE Flatten(_, _)
\* the (host, container) pairs of a containersMap in visiting order
Flatten(containersMap, order) ==
    IF Len(order) = 0 THEN <<>>
    ELSE LET h == Head(order)
         IN [n \in 1..Len(containersMap[h]) |-> [Host |-> h, Ctr |-> containersMap[h][n]]]
            \o Flatten(containersMap, Tail(order))

\* models.Alert (Value and Threshold are 0 when the code leaves them unset,
\* and Acknowledged is false)
Alert(id, type, host, containerID, value, threshold) ==
    [ID |-> id, Type |-> type, Host |-> host, ContainerID |-> containerID,
     Value |-> value, Threshold |-> threshold, Acknowledged |-> FALSE]

\* ------------------------------------------------------------ triggerAlert
\* AlertHistory.Add dropping the oldest entry only above capacity
HistoryAddAfterFull(h, alert) ==
    IF Len(h) > HistoryCapacity THEN Append(Tail(h), alert) ELSE Append(h, alert)

\* AlertHistory.Add: at capacity the oldest entry is dropped first
HistoryAdd(h, alert) ==
    IF Len(h) >= HistoryCapacity THEN Append(Tail(h), alert) ELSE Append(h, alert)

isCriticalAlert(alert) == alert.Type = AlertContainerStopped

\* Dispatches without the AlertsFilter test
DispatchesUnfiltered(alert) == config.WebhookURL # ""

\* Dispatches without the WebhookURL test
DispatchesWithoutURL(alert) ==
    ~(config.AlertsFilter = "critical" /\ ~isCriticalAlert(alert))

\* whether triggerAlert starts the SendWebhook goroutine for the alert
Dispatches(alert) ==
    /\ config.WebhookURL # ""
    /\ ~(config.AlertsFilter = "critical" /\ ~isCriticalAlert(alert))

\* ---------------------------------------------------- checkContainerStates
\* stateChangeAlert without the `exists` test: an untracked key counts as
\* a change from the zero value "" of the map
stateChangeAlertNoExists(exists, prevState, ctrState) ==
    IF prevState # ctrState
    THEN IF ctrState = "exited" \/ ctrState = "dead"
         THEN AlertContainerStopped
         ELSE IF ctrState = "running"
                 /\ (prevState = "exited" \/ prevState = "dead" \/ prevState = "created")
              THEN AlertContainerStarted
              ELSE NoAlert
    ELSE NoAlert

\* stateChangeAlert announcing a start only for a container that was created
stateChangeAlertCreatedOnly(exists, prevState, ctrState) ==
    IF exists /\ prevState # ctrState
    THEN IF ctrState = "exited" \/ ctrState = "dead"
         THEN AlertContainerStopped
         ELSE IF ctrState = "running" /\ prevState = "created"
              THEN AlertContainerStarted
              ELSE NoAlert
    ELSE NoAlert

\* stateChangeAlert announcing a stop only for a container that was running
stateChangeAlertFromRunning(exists, prevState, ctrState) ==
    IF exists /\ prevState # ctrState
    THEN IF (ctrState = "exited" \/ ctrState = "dead") /\ prevState = "running"
         THEN AlertContainerStopped
         ELSE IF ctrState = "running"
                 /\ (prevState = "exited" \/ prevState = "dead" \/ prevState = "created")
              THEN AlertContainerStarted
              ELSE NoAlert
    ELSE NoAlert

\* the alert type of lines 451-476 for a container reported in ctrState whose
\* key has (exists) the tracked state prevState, NoAlert if none is triggered
stateChangeAlert(exists, prevState, ctrState) ==
    IF exists /\ prevState # ctrState
    THEN IF ctrState = "exited" \/ ctrState = "dead"
         THEN AlertContainerStopped
         ELSE IF ctrState = "running"
                 /\ (prevState = "exited" \/ prevState = "dead" \/ prevState = "created")
              THEN AlertContainerStarted
              ELSE NoAlert
    ELSE NoAlert

\* f with key k set to v (m.containerStates[key] = ctr.State)
MapPut(f, k, v) == [x \in DOMAIN f \cup {k} |-> IF x = k THEN v ELSE f[x]]

\* recordState storing the state of a container only when its key is new
recordStateKeepsFirst(states, key, state) ==
    IF key \in DOMAIN states THEN states ELSE MapPut(states, key, state)

\* line 478: m.containerStates[key] = ctr.State
recordState(states, key, state) == MapPut(states, key, state)

\* cleanUp that deletes nothing
cleanUpKeepsAll(states, current) == states

\* cleanUp sparing the keys of the hosts none of whose containers is in
\* currentContainers
cleanUpSparesAbsentHosts(states, current) ==
    [k \in {x \in DOMAIN states :
               \/ x \in current
               \/ \E h \in Hosts : x \in {Key(h, id) : id \in ContainerIDs}
                                   /\ current \cap {Key(h, id) : id \in ContainerIDs} = {}}
       |-> states[k]]

\* lines 482-487: drop the tracked keys that are not in currentContainers
cleanUp(states, current) == [k \in DOMAIN states \cap current |-> states[k]]

\* statePairs giving up when a host of the fleet sent no list (as the HTTP
\* handler of the container list does when hostErrors is not empty)
statePairsAllHosts(containersMap, order) ==
    IF DOMAIN containersMap # Hosts THEN <<>> ELSE Flatten(containersMap, order)

\* lines 440-441: the containers the two nested loops of checkContainerStates
\* visit, the hosts taken in the given order
statePairs(containersMap, order) == Flatten(containersMap, order)

\* ------------------------------------------------- checkResourceThresholds
\* needsStats without the test of ctr.State
needsStatsAnyState(ctr) == TRUE

\* line 499: only a running container has its stats queried
needsStats(ctr) == ctr.State = "running"

\* afterStatsError leaving the loops, instead of continuing, when a stats
\* query fails
afterStatsErrorReturns(pairs) == <<>>

\* lines 504-506: `continue` after a failed stats query
afterStatsError(pairs) == Tail(pairs)

\* thresholdDue comparing with >= instead of >
thresholdDueAtLeast(hostName, ctr, stats) ==
    [cpu |-> stats.CPUPercent >= config.CPUThreshold,
     mem |-> stats.MemoryPercent >= config.MemoryThreshold]

\* thresholdDue raising a CPU alert only for a container the history has no
\* CPU alert of yet
thresholdDueOncePerContainer(hostName, ctr, stats) ==
    [cpu |-> /\ stats.CPUPercent > config.CPUThreshold
             /\ ~\E n \in 1..Len(history) :
                   /\ history[n].Type = AlertCPUThreshold
                   /\ history[n].Host = hostName
                   /\ history[n].ContainerID = ctr.ID,
     mem |-> stats.MemoryPercent > config.MemoryThreshold]

\* the tests of lines 515 and 530 on the stats of a container
thresholdDue(hostName, ctr, stats) ==
    [cpu |-> stats.CPUPercent > config.CPUThreshold,
     mem |-> stats.MemoryPercent > config.MemoryThreshold]

\* the alert literals of lines 516-525 and 531-540
CPUAlert(hostName, ctr, stats) ==
    Alert(0, AlertCPUThreshold, hostName, ctr.ID, stats.CPUPercent, config.CPUThreshold)
MemoryAlert(hostName, ctr, stats) ==
    Alert(0, AlertMemoryThreshold, hostName, ctr.ID, stats.MemoryPercent,
          config.MemoryThreshold)

\* ------------------------------------------------------------- observers
\* the record of one check cycle: how its two fleet queries ended, the
\* tracked map when the cycle began, the tracked map and the gone keys when
\* checkContainerStates took the lock, the containersMap it processed, the
\* alerts the cycle triggered so far, and for checkResourceThresholds the
\* containersMap it went through (tseen), the keys it queried the stats of
\* (queried) and the answers it got (tstats)
NewCycle(states) ==
    [q1 |-> "none", q2 |-> "none", start |-> <<states>>, before |-> NoSnap,
     goneBefore |-> {}, lostBefore |-> <<>>, seen |-> NoSnap, alerts |-> <<>>,
     tseen |-> NoSnap, queried |-> {}, tstats |-> <<>>]
NoCycle ==
    [q1 |-> "none", q2 |-> "none", start |-> NoSnap, before |-> NoSnap,
     goneBefore |-> {}, lostBefore |-> <<>>, seen |-> NoSnap, alerts |-> <<>>,
     tseen |-> NoSnap, queried |-> {}, tstats |-> <<>>]

\* the keys a containersMap lists
SnapshotKeys(containersMap) ==
    UNION {{Key(h, containersMap[h][n].ID) : n \in 1..Len(containersMap[h])}
           : h \in DOMAIN containersMap}

\* the state a containersMap reports for key k (k is listed in it)
ReportedState(containersMap, k) ==
    LET h == CHOOSE x \in DOMAIN containersMap :
                 \E n \in 1..Len(containersMap[x]) : Key(x, containersMap[x][n].ID) = k
        n == CHOOSE m \in 1..Len(containersMap[h]) : Key(h, containersMap[h][m].ID) = k
    IN containersMap[h][n].State

\* the types of the alerts of a sequence that are about key k
TypesFor(alerts, k) ==
    LET F[n \in 0..Len(alerts)] ==
            IF n = 0 THEN <<>>
            ELSE IF Key(alerts[n].Host, alerts[n].ContainerID) = k
                 THEN Append(F[n - 1], alerts[n].Type)
                 ELSE F[n - 1]
    IN F[Len(alerts)]

IsLifecycle(type) == type \in LifecycleTypes

\* the types of the lifecycle alerts of a sequence that are about key k
LifecycleFor(alerts, k) == SelectSeq(TypesFor(alerts, k), IsLifecycle)

\* the last three entries of a sequence
Last3(q) == IF Len(q) <= 3 THEN q ELSE SubSeq(q, Len(q) - 2, Len(q))

\* obs after a successfully fetched containersMap was processed on the tracked
\* map before, emitting the alerts emitted: a key listed gets an entry (state
\* reported, alerts about it, whether it was untracked); a key not listed
\* starts over
ObsAfter(o, before, containersMap, emitted) ==
    [k \in AllKeys |->
        IF k \in SnapshotKeys(containersMap)
        THEN Last3(Append(o[k], [state |-> ReportedState(containersMap, k),
                                 alerts |-> TypesFor(emitted, k),
                                 first |-> k \notin DOMAIN before]))
        ELSE <<>>]

\* the keys of the containers of a set of hosts
KeysOf(hosts) == {Key(h, id) : h \in hosts, id \in ContainerIDs}

\* lost after a containersMap was processed on the tracked map before: the
\* tracked keys of the hosts that are missing from it are added with their
\* states, the keys of the hosts that answered are taken out
LostAfter(l, before, containersMap) ==
    LET missing == KeysOf(Hosts \ DOMAIN containersMap)
        dropped == DOMAIN before \cap missing
    IN [k \in (DOMAIN l \cap missing) \cup dropped |->
           IF k \in dropped THEN before[k] ELSE l[k]]

\* the hosts of the fleet a fleet answer carries an error for instead of a
\* list (the per-host error map the Monitor discards)
hostErrors(containersMap) == Hosts \ DOMAIN containersMap

\* the keys a containersMap lists as running
RunningKeys(containersMap) ==
    {k \in SnapshotKeys(containersMap) : ReportedState(containersMap, k) = "running"}

\* the threshold alerts of a sequence that are about key k
ThresholdAlertsFor(alerts, k) ==
    SelectSeq(alerts, LAMBDA a : Key(a.Host, a.ContainerID) = k /\ a.Type \in ThresholdTypes)

\* the positions of a monitorLoop goroutine inside checkAll
InCycle == {"list", "lock", "states", "states.add", "states.go",
            "thresholds", "stats", "stats.add", "stats.go", "return"}

\* the positions at which a monitorLoop goroutine holds m.statesMu
HoldsStatesMu == {"states", "states.add", "states.go"}

\* the local variables of checkContainerStates and checkResourceThresholds:
\* containersMap, the containers the `range` loops have yet to visit (the
\* first of them is the one the loop body is at), currentContainers, the stats
\* of the container and the alert handed to triggerAlert
NoLocals == [containersMap |-> NoSnap, pairs |-> <<>>, currentContainers |-> {},
             stats |-> <<>>, alert |-> <<>>]

\* ------------------------------------------------------------------ config
\* the AlertConfig values parseAlertConfig can hand to NewMonitor, with the
\* default thresholds
Configs(enabled, urls, filters) ==
    [Enabled : enabled, WebhookURL : urls, AlertsFilter : filters,
     CPUThreshold : {DefaultCPUThreshold}, MemoryThreshold : {DefaultMemoryThreshold}]

\* NewMonitor: empty tracked map and history, open stop channel, no goroutine
NewMonitor(cfg) ==
    /\ config = cfg
    /\ starts = 0
    /\ stopPc = "none"
    /\ stopCh = "open"
    /\ wg = 0
    /\ pc = [i \in Loops |-> "idle"]
    /\ ticker = [i \in Loops |-> "none"]
    /\ tickPending = [i \in Loops |-> FALSE]
    /\ ticksFired = [i \in Loops |-> 0]
    /\ locals = [i \in Loops |-> NoLocals]
    /\ containerStates = <<>>
    /\ history = <<>>
    /\ webhooks = <<>>
    /\ outcomes = <<>>
    /\ nextId = 0
    /\ cyc = [i \in Loops |-> NoCycle]
    /\ cyclesStarted = [i \in Loops |-> 0]
    /\ cyclesDone = [i \in Loops |-> 0]
    /\ ticksConsumed = [i \in Loops |-> 0]
    /\ atStop = [inFlight |-> {}, due |-> {}]
    /\ obs = [k \in AllKeys |-> <<>>]
    /\ gone = {}
    /\ lost = <<>>

\* ----------------------------------------------------------- Start / Stop
\* Start() without the test of m.config.Enabled
StartIgnoresEnabled(maxStarts) ==
    /\ starts < maxStarts
    /\ stopPc = "none"
    /\ starts' = starts + 1
    /\ wg' = wg + 1
    /\ pc' = [pc EXCEPT ![starts + 1] = "initial"]
    /\ UNCHANGED <<config, restVars, stopPc, stopCh, ticker, tickPending, ticksFired, locals>>
    /\ UNCHANGED <<dataVars, obsVars>>

\* Start(): returns at once when alerting is disabled, otherwise wg.Add(1)
\* and go m.monitorLoop().  The caller makes at most maxStarts calls and none
\* after Stop() (restart after Stop is unsupported).
Start(maxStarts) ==
    /\ starts < maxStarts
    /\ stopPc = "none"
    /\ starts' = starts + 1
    /\ IF ~config.Enabled
       THEN UNCHANGED <<wg, pc>>
       ELSE /\ wg' = wg + 1
            /\ pc' = [pc EXCEPT ![starts + 1] = "initial"]
    /\ UNCHANGED <<config, restVars, stopPc, stopCh, ticker, tickPending, ticksFired, locals>>
    /\ UNCHANGED <<dataVars, obsVars>>

\* Stop(), first half: close(m.stopCh); the caller calls Stop() once
StopSignal ==
    /\ stopPc = "none"
    /\ stopCh' = "closed"
    /\ stopPc' = "waiting"
    /\ atStop' = [inFlight |-> {i \in Loops : pc[i] \in InCycle},
                  due |-> {i \in Loops : tickPending[i]}]
    /\ UNCHANGED <<config, restVars, starts, wg, pc, ticker, tickPending, ticksFired, locals>>
    /\ UNCHANGED <<dataVars, cyc, cyclesStarted, cyclesDone, ticksConsumed, obs, gone, lost>>

\* a Stop() that does not wait
wgWaitSkipped == TRUE

\* an m.wg.Wait() that returns only once a monitorLoop has ended
wgWaitForLoop == \E i \in Loops : pc[i] = "done"

\* m.wg.Wait() returns once the counter is zero
wgWait == wg = 0

\* Stop(), second half: after m.wg.Wait() Stop returns
StopReturn ==
    /\ stopPc = "waiting"
    /\ wgWait
    /\ stopPc' = "returned"
    /\ UNCHANGED <<config, restVars, starts, stopCh, wg, pc, ticker, tickPending, ticksFired, locals>>
    /\ UNCHANGED <<dataVars, obsVars>>

\* ------------------------------------------------------------ monitorLoop
\* a monitorLoop that creates its ticker first and waits for the first tick
InitialCheckAfterTick(i) ==
    /\ pc[i] = "initial"
    /\ pc' = [pc EXCEPT ![i] = "select"]
    /\ ticker' = [ticker EXCEPT ![i] = "running"]
    /\ UNCHANGED <<config, restVars, starts, stopPc, stopCh, wg, tickPending, ticksFired, locals>>
    /\ UNCHANGED <<dataVars, obsVars>>

\* line 402: the goroutine calls checkAll for the initial check
InitialCheck(i) ==
    /\ pc[i] = "initial"
    /\ pc' = [pc EXCEPT ![i] = "list"]
    /\ cyclesStarted' = [cyclesStarted EXCEPT ![i] = @ + 1]
    /\ cyc' = [cyc EXCEPT ![i] = NewCycle(containerStates)]
    /\ UNCHANGED <<config, restVars, starts, stopPc, stopCh, wg, ticker, tickPending,
                   ticksFired, locals>>
    /\ UNCHANGED <<dataVars, cyclesDone, ticksConsumed, atStop, obs, gone, lost>>

\* the ticks all tickers have produced so far
TotalTicks ==
    LET F[n \in 0..MaxLoops] == IF n = 0 THEN 0 ELSE F[n - 1] + ticksFired[n]
    IN F[MaxLoops]

\* the runtime timer sends a tick on ticker.C; the channel holds one tick and
\* a tick that finds it full is dropped; the tickers fire at most maxTicks
\* times in all
Tick(i, maxTicks) ==
    /\ ticker[i] = "running"
    /\ TotalTicks < maxTicks
    /\ ticksFired' = [ticksFired EXCEPT ![i] = @ + 1]
    /\ tickPending' = [tickPending EXCEPT ![i] = TRUE]
    /\ UNCHANGED <<config, restVars, starts, stopPc, stopCh, wg, pc, ticker, locals>>
    /\ UNCHANGED <<dataVars, obsVars>>

\* select, case <-ticker.C: receive the tick and call checkAll
SelectTick(i) ==
    /\ pc[i] = "select"
    /\ tickPending[i]
    /\ tickPending' = [tickPending EXCEPT ![i] = FALSE]
    /\ pc' = [pc EXCEPT ![i] = "list"]
    /\ cyclesStarted' = [cyclesStarted EXCEPT ![i] = @ + 1]
    /\ ticksConsumed' = [ticksConsumed EXCEPT ![i] = @ + 1]
    /\ cyc' = [cyc EXCEPT ![i] = NewCycle(containerStates)]
    /\ UNCHANGED <<config, restVars, starts, stopPc, stopCh, wg, ticker, ticksFired, locals>>
    /\ UNCHANGED <<dataVars, cyclesDone, atStop, obs, gone, lost>>

\* select, case <-m.stopCh: return; the deferred ticker.Stop() and wg.Done() run
SelectStop(i) ==
    /\ pc[i] = "select"
    /\ stopCh = "closed"
    /\ pc' = [pc EXCEPT ![i] = "done"]
    /\ ticker' = [ticker EXCEPT ![i] = "stopped"]
    /\ wg' = wg - 1
    /\ UNCHANGED <<config, restVars, starts, stopPc, stopCh, tickPending, ticksFired, locals>>
    /\ UNCHANGED <<dataVars, obsVars>>

\* ---------------------------------------------------------------- checkAll
\* what every step inside checkAll leaves alone
checkFrame == <<config, restVars, starts, stopPc, stopCh, wg, ticker, tickPending,
                ticksFired, outcomes, cyclesStarted, cyclesDone, ticksConsumed, atStop>>

\* a checkContainerStates whose failed fleet query ends the monitorLoop
ListStatesQuits(i, snaps) ==
    /\ pc[i] = "list"
    /\ \E listing \in {ListOk(m) : m \in snaps} \cup {ListErr} :
         IF listing.Err
         THEN /\ pc' = [pc EXCEPT ![i] = "done"]
              /\ wg' = wg - 1
              /\ cyc' = [cyc EXCEPT ![i].q1 = "err"]
              /\ UNCHANGED locals
         ELSE /\ pc' = [pc EXCEPT ![i] = "lock"]
              /\ cyc' = [cyc EXCEPT ![i].q1 = "ok"]
              /\ locals' = [locals EXCEPT ![i].containersMap = <<listing.Map>>]
              /\ UNCHANGED wg
    /\ UNCHANGED <<config, restVars, starts, stopPc, stopCh, ticker, tickPending, ticksFired>>
    /\ UNCHANGED <<dataVars, cyclesStarted, cyclesDone, ticksConsumed, atStop,
                   obs, gone, lost>>

\* checkContainerStates, lines 427-432: the fleet query answers with a
\* containersMap of snaps or fails; on failure the phase returns and checkAll
\* goes on to checkResourceThresholds
ListStates(i, snaps) ==
    /\ pc[i] = "list"
    /\ \E listing \in {ListOk(m) : m \in snaps} \cup {ListErr} :
         IF listing.Err
         THEN /\ pc' = [pc EXCEPT ![i] = "thresholds"]
              /\ cyc' = [cyc EXCEPT ![i].q1 = "err"]
              /\ UNCHANGED locals
         ELSE /\ pc' = [pc EXCEPT ![i] = "lock"]
              /\ cyc' = [cyc EXCEPT ![i].q1 = "ok"]
              /\ locals' = [locals EXCEPT ![i].containersMap = <<listing.Map>>]
    /\ UNCHANGED <<checkFrame, dataVars, obs, gone, lost>>

\* lines 434-440: m.statesMu.Lock() returns once no other goroutine holds the
\* mutex; currentContainers is made and the `range` over containersMap begins,
\* visiting the hosts in an order of Go's choosing
LockStates(i) ==
    /\ pc[i] = "lock"
    /\ \A j \in Loops \ {i} : pc[j] \notin HoldsStatesMu
    /\ \E order \in Orders(DOMAIN locals[i].containersMap[1]) :
         locals' = [locals EXCEPT ![i].pairs = statePairs(locals[i].containersMap[1], order),
                                  ![i].currentContainers = {}]
    /\ pc' = [pc EXCEPT ![i] = "states"]
    /\ cyc' = [cyc EXCEPT ![i].before = <<containerStates>>,
                          ![i].goneBefore = gone,
                          ![i].lostBefore = lost]
    /\ UNCHANGED <<checkFrame, dataVars, obs, gone, lost>>

\* the loop body of lines 442-478 for the next container, up to the call of
\* triggerAlert if the state change calls for an alert, and to its end if not
StateStep(i) ==
    /\ pc[i] = "states"
    /\ locals[i].pairs # <<>>
    /\ LET hostName == Head(locals[i].pairs).Host
           ctr == Head(locals[i].pairs).Ctr
           key == Key(hostName, ctr.ID)
           exists == key \in DOMAIN containerStates
           type == stateChangeAlert(exists, IF exists THEN containerStates[key] ELSE "",
                                    ctr.State)
       IN IF type = NoAlert
          THEN /\ containerStates' = recordState(containerStates, key, ctr.State)
               /\ locals' = [locals EXCEPT ![i].currentContainers = @ \cup {key},
                                           ![i].pairs = Tail(@)]
               /\ UNCHANGED pc
          ELSE /\ locals' = [locals EXCEPT
                                ![i].currentContainers = @ \cup {key},
                                ![i].alert = <<Alert(0, type, hostName, ctr.ID, 0, 0)>>]
               /\ pc' = [pc EXCEPT ![i] = "states.add"]
               /\ UNCHANGED containerStates
    /\ UNCHANGED <<checkFrame, history, webhooks, nextId, cyc, obs, gone, lost>>

\* triggerAlert, line 551: m.history.Add(alert), the alert carrying the uuid
\* it was built with
TriggerAdd(i) ==
    /\ pc[i] \in {"states.add", "stats.add"}
    /\ LET alert == [locals[i].alert[1] EXCEPT !.ID = nextId + 1]
       IN /\ nextId' = nextId + 1
          /\ history' = HistoryAdd(history, alert)
          /\ locals' = [locals EXCEPT ![i].alert = <<alert>>]
          /\ cyc' = [cyc EXCEPT ![i].alerts = Append(@, alert)]
    /\ pc' = [pc EXCEPT ![i] = IF @ = "states.add" THEN "states.go" ELSE "stats.go"]
    /\ UNCHANGED <<checkFrame, containerStates, webhooks, obs, gone, lost>>

\* what the loops of checkResourceThresholds do with the containers left:
\* go on with the next one, or return after the last
Continue(i, rest) ==
    /\ locals' = [locals EXCEPT ![i] = IF rest = <<>> THEN NoLocals
                                        ELSE [@ EXCEPT !.pairs = rest, !.stats = <<>>,
                                                       !.alert = <<>>]]
    /\ pc' = [pc EXCEPT ![i] = IF rest = <<>> THEN "return" ELSE "stats"]

\* triggerAlert, lines 554-567: the webhook goroutine is started if the
\* configuration asks for one, and triggerAlert returns.  In
\* checkContainerStates the state is then stored (line 478); in
\* checkResourceThresholds the memory test follows the CPU alert (line 530).
TriggerGo(i) ==
    /\ pc[i] \in {"states.go", "stats.go"}
    /\ LET alert == locals[i].alert[1]
           hostName == Head(locals[i].pairs).Host
           ctr == Head(locals[i].pairs).Ctr
       IN /\ webhooks' = IF Dispatches(alert) THEN Append(webhooks, alert) ELSE webhooks
          /\ IF pc[i] = "states.go"
             THEN /\ containerStates' = recordState(containerStates, Key(hostName, ctr.ID),
                                                    ctr.State)
                  /\ locals' = [locals EXCEPT ![i].pairs = Tail(@), ![i].alert = <<>>]
                  /\ pc' = [pc EXCEPT ![i] = "states"]
             ELSE /\ UNCHANGED containerStates
                  /\ IF /\ alert.Type = AlertCPUThreshold
                        /\ thresholdDue(hostName, ctr, locals[i].stats[1]).mem
                     THEN /\ locals' = [locals EXCEPT ![i].alert =
                                           <<MemoryAlert(hostName, ctr, locals[i].stats[1])>>]
                          /\ pc' = [pc EXCEPT ![i] = "stats.add"]
                     ELSE Continue(i, Tail(locals[i].pairs))
    /\ UNCHANGED <<checkFrame, history, nextId, cyc, obs, gone, lost>>

\* lines 482-488: after the loops the clean-up, and the deferred
\* m.statesMu.Unlock() as checkContainerStates returns
UnlockStates(i) ==
    /\ pc[i] = "states"
    /\ locals[i].pairs = <<>>
    /\ containerStates' = cleanUp(containerStates, locals[i].currentContainers)
    /\ LET containersMap == locals[i].containersMap[1]
           before == cyc[i].before[1]
       IN /\ cyc' = [cyc EXCEPT ![i].seen = <<containersMap>>]
          /\ obs' = ObsAfter(obs, before, containersMap, cyc[i].alerts)
          /\ gone' = (gone \cup (DOMAIN before \ SnapshotKeys(containersMap)))
                     \ SnapshotKeys(containersMap)
          /\ lost' = LostAfter(lost, before, containersMap)
    /\ locals' = [locals EXCEPT ![i] = NoLocals]
    /\ pc' = [pc EXCEPT ![i] = "thresholds"]
    /\ UNCHANGED <<checkFrame, history, webhooks, nextId>>

\* checkResourceThresholds, lines 492-497: its own fleet query answers with a
\* containersMap of snaps or fails; on failure it returns, else the `range`
\* over the map begins
ListThresholds(i, snaps) ==
    /\ pc[i] = "thresholds"
    /\ \E listing \in {ListOk(m) : m \in snaps} \cup {ListErr} :
         IF listing.Err
         THEN /\ pc' = [pc EXCEPT ![i] = "return"]
              /\ cyc' = [cyc EXCEPT ![i].q2 = "err"]
              /\ UNCHANGED locals
         ELSE /\ cyc' = [cyc EXCEPT ![i].q2 = "ok", ![i].tseen = <<listing.Map>>]
              /\ \E order \in Orders(DOMAIN listing.Map) :
                   LET pairs == Flatten(listing.Map, order)
                   IN /\ locals' = [locals EXCEPT ![i] =
                                       IF pairs = <<>> THEN NoLocals
                                       ELSE [NoLocals EXCEPT !.containersMap = <<listing.Map>>,
                                                             !.pairs = pairs]]
                      /\ pc' = [pc EXCEPT ![i] = IF pairs = <<>> THEN "return" ELSE "stats"]
    /\ UNCHANGED <<checkFrame, dataVars, obs, gone, lost>>

\* the loop body of lines 499-530 for the next container: a container that is
\* not running is passed over; for a running one GetContainerStatsOnce answers
\* from statsU, and the body goes on to the first triggerAlert the stats call
\* for, or to its end if they call for none
QueryStats(i, statsU) ==
    /\ pc[i] = "stats"
    /\ LET hostName == Head(locals[i].pairs).Host
           ctr == Head(locals[i].pairs).Ctr
           key == Key(hostName, ctr.ID)
       IN IF ~needsStats(ctr)
          THEN /\ Continue(i, Tail(locals[i].pairs))
               /\ UNCHANGED cyc
          ELSE \E stats \in statsU :
                 /\ cyc' = [cyc EXCEPT ![i].queried = @ \cup {key},
                                       ![i].tstats = MapPut(@, key, stats)]
                 /\ IF stats.Err
                    THEN Continue(i, afterStatsError(locals[i].pairs))
                    ELSE LET due == thresholdDue(hostName, ctr, stats)
                         IN IF due.cpu \/ due.mem
                            THEN /\ locals' = [locals EXCEPT
                                        ![i].stats = <<stats>>,
                                        ![i].alert =
                                            IF due.cpu THEN <<CPUAlert(hostName, ctr, stats)>>
                                            ELSE <<MemoryAlert(hostName, ctr, stats)>>]
                                 /\ pc' = [pc EXCEPT ![i] = "stats.add"]
                            ELSE Continue(i, Tail(locals[i].pairs))
    /\ UNCHANGED <<checkFrame, dataVars, obs, gone, lost>>

\* a checkAll whose triggerAlert calls SendWebhook without `go`: it returns
\* only when every delivery has ended
ReturnAfterWebhooks(i) ==
    /\ pc[i] = "return"
    /\ DOMAIN outcomes = 1..Len(webhooks)
    /\ pc' = [pc EXCEPT ![i] = "select"]
    /\ ticker' = [ticker EXCEPT ![i] = IF @ = "none" THEN "running" ELSE @]
    /\ cyc' = [cyc EXCEPT ![i] = NoCycle]
    /\ cyclesDone' = [cyclesDone EXCEPT ![i] = @ + 1]
    /\ UNCHANGED <<config, restVars, starts, stopPc, stopCh, wg, tickPending, ticksFired, locals>>
    /\ UNCHANGED <<dataVars, cyclesStarted, ticksConsumed, atStop, obs, gone, lost>>

\* checkAll returns to monitorLoop; after the initial check the loop creates
\* its ticker (line 404) and then waits in the select
Return(i) ==
    /\ pc[i] = "return"
    /\ pc' = [pc EXCEPT ![i] = "select"]
    /\ ticker' = [ticker EXCEPT ![i] = IF @ = "none" THEN "running" ELSE @]
    /\ cyc' = [cyc EXCEPT ![i] = NoCycle]
    /\ cyclesDone' = [cyclesDone EXCEPT ![i] = @ + 1]
    /\ UNCHANGED <<config, restVars, starts, stopPc, stopCh, wg, tickPending, ticksFired, locals>>
    /\ UNCHANGED <<dataVars, cyclesStarted, ticksConsumed, atStop, obs, gone, lost>>

\* -------------------------------------------------------- webhook goroutine
\* how a call of SendWebhook can end: nil, an error, or the error of the
\* 10 s deadline of its context
WebhookOutcomes == {"ok", "failed", "timeout"}

\* a webhook goroutine that hands the alert over again after a failure
WebhookDoneRetries(n) ==
    /\ n \in 1..Len(webhooks)
    /\ n \notin DOMAIN outcomes
    /\ \E o \in WebhookOutcomes :
          /\ outcomes' = MapPut(outcomes, n, o)
          /\ webhooks' = IF o = "ok" THEN webhooks ELSE Append(webhooks, webhooks[n])
    /\ UNCHANGED <<config, restVars, starts, stopPc, stopCh, wg, pc, ticker, tickPending,
                   ticksFired, locals>>
    /\ UNCHANGED <<containerStates, history, nextId, obsVars>>

\* the goroutine of lines 560-567 for the n-th alert handed over: SendWebhook
\* returns, an error is logged, and the goroutine ends
WebhookDone(n) ==
    /\ n \in 1..Len(webhooks)
    /\ n \notin DOMAIN outcomes
    /\ \E o \in WebhookOutcomes : outcomes' = MapPut(outcomes, n, o)
    /\ UNCHANGED <<config, restVars, starts, stopPc, stopCh, wg, pc, ticker, tickPending,
                   ticksFired, locals>>
    /\ UNCHANGED <<containerStates, history, webhooks, nextId, obsVars>>

\* =========================================================================
\* The stats HistoryManager (package stats, src/home/internal/stats/history.go
\* lines 1-114): one ContainerHistory per container id, each a bounded series
\* of data points, behind the RWMutex of the collection and the RWMutex of
\* the series.  Time is in whole seconds, as the Unix timestamps of the
\* samples are; the float64 quotients GetAverages returns are kept exact, as
\* a numerator and a denominator.
\* =========================================================================
\* NewHistoryManager: maxSize
MaxSize == 720

\* the goroutines calling the HistoryManager, and the ids they use
Procs == {"p1", "p2"}
EntityIDs == {"web1", "db1"}

\* sync.RWMutex: the goroutine holding it for writing ("" for none) and the
\* goroutines holding it for reading.  A Lock() that waits is not recorded:
\* the preference Go gives it over later RLock() calls only adds waiting.
RWFree == [w |-> "", r |-> {}]
CanLock(mu) == mu.w = "" /\ mu.r = {}
CanRLock(mu) == mu.w = ""
Lock(mu, p) == [mu EXCEPT !.w = p]
Unlock(mu, p) == [mu EXCEPT !.w = ""]
RLock(mu, p) == [mu EXCEPT !.r = @ \cup {p}]
RUnlock(mu, p) == [mu EXCEPT !.r = @ \ {p}]

\* the fields of models.ContainerStats RecordStats reads
ContainerStats(cpu, mem, ts) ==
    [CPUPercent |-> cpu, MemoryPercent |-> mem, Timestamp |-> ts]

\* DataPoint built from the stats (lines 50-54), as the triple of its fields
\* CPUPercent, MemoryPercent and Timestamp
DataPoint(stats) == <<stats.CPUPercent, stats.MemoryPercent, stats.Timestamp>>
CPUPercent(dp) == dp[1]
MemoryPercent(dp) == dp[2]
Timestamp(dp) == dp[3]

\* &ContainerHistory{dataPoints: make([]DataPoint, 0, maxSize), maxSize: maxSize}
ContainerHistory(maxSize) == [mu |-> RWFree, dataPoints |-> <<>>, maxSize |-> maxSize]

\* delete(m, k)
delete(m, k) == [x \in DOMAIN m \ {k} |-> m[x]]

\* lines 58-60 without the test: the series is never cut
trimNever(dataPoints, maxSize) == dataPoints

\* lines 58-60 cutting at the other end: the newest point is dropped
trimNewest(dataPoints, maxSize) ==
    IF Len(dataPoints) > maxSize THEN SubSeq(dataPoints, 1, Len(dataPoints) - 1)
    ELSE dataPoints

\* lines 58-60: above maxSize the series loses its first point
trim(dataPoints, maxSize) ==
    IF Len(dataPoints) > maxSize THEN Tail(dataPoints) ELSE dataPoints

\* a float64 quotient sum / count
Quot(sum, count) == [Num |-> sum, Den |-> count]
NoData == [cpuAvg |-> Quot(0, 1), memAvg |-> Quot(0, 1), hasData |-> FALSE]

\* The loop of lines 85-93 walks from the newest point down and breaks at the
\* first point whose timestamp is before the cutoff.  breakAt is the index
\* it breaks at (0 when it runs through), found by halving lo..hi and looking
\* at the upper half first; sums adds up a field over lo..hi the same way.
RECURSIVE breakAt(_, _, _, _)
breakAt(dataPoints, cutoff, lo, hi) ==
    IF lo > hi THEN 0
    ELSE IF lo = hi
         THEN IF Timestamp(dataPoints[lo]) < cutoff THEN lo ELSE 0
         ELSE LET mid == (lo + hi) \div 2
                  upper == breakAt(dataPoints, cutoff, mid + 1, hi)
              IN IF upper # 0 THEN upper ELSE breakAt(dataPoints, cutoff, lo, mid)

RECURSIVE sums(_, _, _)
sums(dataPoints, lo, hi) ==
    IF lo > hi THEN [cpuSum |-> 0, memSum |-> 0]
    ELSE IF lo = hi
         THEN [cpuSum |-> CPUPercent(dataPoints[lo]),
               memSum |-> MemoryPercent(dataPoints[lo])]
         ELSE LET mid == (lo + hi) \div 2
                  a == sums(dataPoints, lo, mid)
                  b == sums(dataPoints, mid + 1, hi)
              IN [cpuSum |-> a.cpuSum + b.cpuSum, memSum |-> a.memSum + b.memSum]

\* lines 75-99 reporting data only when the sums are not zero
averagesNonZero(dataPoints, t, duration) ==
    LET first == breakAt(dataPoints, t - duration, 1, Len(dataPoints)) + 1
        count == Len(dataPoints) - first + 1
        s == sums(dataPoints, first, Len(dataPoints))
    IN IF count = 0 \/ s.cpuSum + s.memSum = 0 THEN NoData
       ELSE [cpuAvg |-> Quot(s.cpuSum, count), memAvg |-> Quot(s.memSum, count),
             hasData |-> TRUE]

\* lines 85-93 with the break one point late: a point is left out as soon as
\* its timestamp is not after the cutoff
averagesAfterCutoff(dataPoints, t, duration) ==
    LET first == breakAt(dataPoints, t - duration + 1, 1, Len(dataPoints)) + 1
        count == Len(dataPoints) - first + 1
        s == sums(dataPoints, first, Len(dataPoints))
    IN IF count = 0 THEN NoData
       ELSE [cpuAvg |-> Quot(s.cpuSum, count), memAvg |-> Quot(s.memSum, count),
             hasData |-> TRUE]

\* lines 85-93 without the break: every point that is not before the cutoff
\* is summed, wherever it is stored
averagesAllInWindow(dataPoints, t, duration) ==
    LET inWindow == SelectSeq(dataPoints, LAMBDA dp : ~(Timestamp(dp) < t - duration))
        count == Len(inWindow)
        s == sums(inWindow, 1, count)
    IN IF count = 0 THEN NoData
       ELSE [cpuAvg |-> Quot(s.cpuSum, count), memAvg |-> Quot(s.memSum, count),
             hasData |-> TRUE]

\* lines 75-99 of GetAverages, at time t = time.Now(): no data for an empty
\* series or when the newest point is before the cutoff, else the mean of the
\* points from the newest down to the break
averages(dataPoints, t, duration) ==
    IF Len(dataPoints) = 0 THEN NoData
    ELSE LET cutoff == t - duration
             first == breakAt(dataPoints, cutoff, 1, Len(dataPoints)) + 1
             count == Len(dataPoints) - first + 1
             s == sums(dataPoints, first, Len(dataPoints))
         IN IF count = 0 THEN NoData
            ELSE [cpuAvg |-> Quot(s.cpuSum, count), memAvg |-> Quot(s.memSum, count),
                  hasData |-> TRUE]

\* ----------------------------------------------------- HistoryManager calls
Idle == [op |-> "idle", pc |-> "idle", id |-> "", stats |-> ContainerStats(0, 0, 0),
         duration |-> 0, ret |-> <<>>]

\* NewHistoryManager, no call under way, the clock at 0
NewHistoryManager ==
    /\ containers = <<>>
    /\ hmMu = RWFree
    /\ clock = 0
    /\ call = [p \in Procs |-> Idle]
    /\ recorded = [id \in EntityIDs |-> <<>>]

\* ---------------------------------------------- the rest, when left alone
\* the requests the API may get, none of them made yet
Requests == 1..MaxRequests
NoRequest == [action |-> "", host |-> "", pc |-> "none", response |-> <<>>,
              docker |-> "none"]

\* the acknowledge calls: none made
\* (again: the entry was acknowledged already when the call was made)
NoAck == [calls |-> 0, op |-> "none", id |-> 0, found |-> FALSE, again |-> FALSE]

\* the program is started once or, to compare two starts, twice
Runs == {1, 2}

\* no call of the HistoryManager or of the AlertHistory handlers under way,
\* the configuration not read
RestIdle ==
    /\ NewHistoryManager
    /\ ackRet = NoAck
    /\ env = [r \in Runs |-> <<>>]
    /\ loaded = [r \in Runs |-> <<>>]
    /\ view = [r \in Runs |-> <<>>]
    /\ requests = [n \in Requests |-> NoRequest]

At(p, op, where) == call[p].op = op /\ call[p].pc = where

\* the clock moves on by step seconds
ClockTick(step, maxNow) ==
    /\ clock + step <= maxNow
    /\ clock' = clock + step
    /\ UNCHANGED <<containers, hmMu, call, recorded, storeFrame>>

\* goroutine p calls RecordStats(id, stats)
CallRecordStats(p, id, stats) ==
    /\ call[p].op = "idle"
    /\ call' = [call EXCEPT ![p] = [Idle EXCEPT !.op = "RecordStats", !.pc = "lock",
                                                !.id = id, !.stats = stats]]
    /\ UNCHANGED <<containers, hmMu, clock, recorded, storeFrame>>

\* line 36: hm.mu.Lock()
RecordStatsLock(p) ==
    /\ At(p, "RecordStats", "lock")
    /\ CanLock(hmMu)
    /\ hmMu' = Lock(hmMu, p)
    /\ call' = [call EXCEPT ![p].pc = "lookup"]
    /\ UNCHANGED <<containers, clock, recorded, storeFrame>>

\* lines 39-47 followed by hm.mu.Unlock(): the lock of the collection is held
\* for the lookup and the creation only
RecordStatsLookupUnlocksOuter(p) ==
    /\ At(p, "RecordStats", "lookup")
    /\ LET id == call[p].id
           looked == IF id \in DOMAIN containers THEN containers
                     ELSE MapPut(containers, id, ContainerHistory(MaxSize))
       IN /\ CanLock(looked[id].mu)
          /\ containers' = [looked EXCEPT ![id].mu = Lock(@, p)]
    /\ hmMu' = Unlock(hmMu, p)
    /\ call' = [call EXCEPT ![p].pc = "append"]
    /\ UNCHANGED <<clock, recorded, storeFrame>>

\* lines 39-47: the series is created when the id has none, then locked
RecordStatsLookup(p) ==
    /\ At(p, "RecordStats", "lookup")
    /\ LET id == call[p].id
           looked == IF id \in DOMAIN containers THEN containers
                     ELSE MapPut(containers, id, ContainerHistory(MaxSize))
       IN /\ CanLock(looked[id].mu)
          /\ containers' = [looked EXCEPT ![id].mu = Lock(@, p)]
    /\ call' = [call EXCEPT ![p].pc = "append"]
    /\ UNCHANGED <<hmMu, clock, recorded, storeFrame>>

\* lines 50-56: the data point is appended
RecordStatsAppend(p) ==
    /\ At(p, "RecordStats", "append")
    /\ LET id == call[p].id
           dataPoint == DataPoint(call[p].stats)
       IN /\ containers' = [containers EXCEPT ![id].dataPoints = Append(@, dataPoint)]
          /\ recorded' = [recorded EXCEPT ![id] = Append(@, dataPoint)]
    /\ call' = [call EXCEPT ![p].pc = "trim"]
    /\ UNCHANGED <<hmMu, clock, storeFrame>>

\* lines 58-60
RecordStatsTrim(p) ==
    /\ At(p, "RecordStats", "trim")
    /\ LET id == call[p].id
       IN containers' = [containers EXCEPT
                           ![id].dataPoints = trim(@, containers[id].maxSize)]
    /\ call' = [call EXCEPT ![p].pc = "unlock"]
    /\ UNCHANGED <<hmMu, clock, recorded, storeFrame>>

\* RecordStats returning without the deferred hm.mu.Unlock()
RecordStatsReturnKeepsLock(p) ==
    /\ At(p, "RecordStats", "unlock")
    /\ containers' = [containers EXCEPT ![call[p].id].mu = Unlock(@, p)]
    /\ call' = [call EXCEPT ![p] = Idle]
    /\ UNCHANGED <<hmMu, clock, recorded, storeFrame>>

\* the deferred history.mu.Unlock() and hm.mu.Unlock(), and the return
RecordStatsReturn(p) ==
    /\ At(p, "RecordStats", "unlock")
    /\ containers' = [containers EXCEPT ![call[p].id].mu = Unlock(@, p)]
    /\ hmMu' = Unlock(hmMu, p)
    /\ call' = [call EXCEPT ![p] = Idle]
    /\ UNCHANGED <<clock, recorded, storeFrame>>

\* goroutine p calls GetAverages(id, duration)
CallGetAverages(p, id, duration) ==
    /\ call[p].op = "idle"
    /\ call' = [call EXCEPT ![p] = [Idle EXCEPT !.op = "GetAverages", !.pc = "rlock",
                                                !.id = id, !.duration = duration]]
    /\ UNCHANGED <<containers, hmMu, clock, recorded, storeFrame>>

\* line 64: hm.mu.RLock()
GetAveragesRLock(p) ==
    /\ At(p, "GetAverages", "rlock")
    /\ CanRLock(hmMu)
    /\ hmMu' = RLock(hmMu, p)
    /\ call' = [call EXCEPT ![p].pc = "lookup"]
    /\ UNCHANGED <<containers, clock, recorded, storeFrame>>

\* lines 67-72: an unknown id returns 0, 0, false (and the deferred RUnlock
\* runs); a known one has its series locked for reading
GetAveragesLookup(p) ==
    /\ At(p, "GetAverages", "lookup")
    /\ LET id == call[p].id
       IN IF id \notin DOMAIN containers
          THEN /\ hmMu' = RUnlock(hmMu, p)
               /\ call' = [call EXCEPT ![p].pc = "returned", ![p].ret = <<NoData>>]
               /\ UNCHANGED containers
          ELSE /\ CanRLock(containers[id].mu)
               /\ containers' = [containers EXCEPT ![id].mu = RLock(@, p)]
               /\ call' = [call EXCEPT ![p].pc = "scan"]
               /\ UNCHANGED hmMu
    /\ UNCHANGED <<clock, recorded, storeFrame>>

\* lines 75-99, then the deferred history.mu.RUnlock() and hm.mu.RUnlock()
GetAveragesScan(p) ==
    /\ At(p, "GetAverages", "scan")
    /\ LET id == call[p].id
       IN /\ call' = [call EXCEPT
                        ![p].pc = "returned",
                        ![p].ret = <<averages(containers[id].dataPoints, clock,
                                              call[p].duration)>>]
          /\ containers' = [containers EXCEPT ![id].mu = RUnlock(@, p)]
    /\ hmMu' = RUnlock(hmMu, p)
    /\ UNCHANGED <<clock, recorded, storeFrame>>

\* the caller has taken the result
GetAveragesReturned(p) ==
    /\ At(p, "GetAverages", "returned")
    /\ call' = [call EXCEPT ![p] = Idle]
    /\ UNCHANGED <<containers, hmMu, clock, recorded, storeFrame>>

\* goroutine p calls CleanupContainer(id)
CallCleanupContainer(p, id) ==
    /\ call[p].op = "idle"
    /\ call' = [call EXCEPT ![p] = [Idle EXCEPT !.op = "CleanupContainer",
                                                !.pc = "lock", !.id = id]]
    /\ UNCHANGED <<containers, hmMu, clock, recorded, storeFrame>>

\* line 111: hm.mu.Lock()
CleanupContainerLock(p) ==
    /\ At(p, "CleanupContainer", "lock")
    /\ CanLock(hmMu)
    /\ hmMu' = Lock(hmMu, p)
    /\ call' = [call EXCEPT ![p].pc = "delete"]
    /\ UNCHANGED <<containers, clock, recorded, storeFrame>>

\* line 113 emptying the whole collection
cleanupAll(m, id) == <<>>

\* line 113: delete(hm.containers, containerID)
cleanup(m, id) == delete(m, id)

\* line 113, the deferred hm.mu.Unlock() and the return
CleanupContainerDelete(p) ==
    /\ At(p, "CleanupContainer", "delete")
    /\ containers' = cleanup(containers, call[p].id)
    /\ recorded' = [recorded EXCEPT ![call[p].id] = <<>>]
    /\ hmMu' = Unlock(hmMu, p)
    /\ call' = [call EXCEPT ![p] = Idle]
    /\ UNCHANGED <<clock, storeFrame>>

\* the steps of the call goroutine p is in
RecordStatsStep(p) ==
    \/ RecordStatsLock(p)
    \/ RecordStatsLookup(p)
    \/ RecordStatsAppend(p)
    \/ RecordStatsTrim(p)
    \/ RecordStatsReturn(p)

GetAveragesStep(p) ==
    \/ GetAveragesRLock(p)
    \/ GetAveragesLookup(p)
    \/ GetAveragesScan(p)
    \/ GetAveragesReturned(p)

CleanupContainerStep(p) ==
    \/ CleanupContainerLock(p)
    \/ CleanupContainerDelete(p)

CallStep(p) == RecordStatsStep(p) \/ GetAveragesStep(p) \/ CleanupContainerStep(p)

\* =========================================================================
\* The AlertHistory behind the routes of registerAlertRoutes
\* (src/home/internal/api/router.go lines 184-189).  Neither AlertHistory nor
\* the AlertHandlers are part of the sources; Acknowledge and AcknowledgeAll
\* are what section 4.5 of the specification says of them.
\* =========================================================================
\* Acknowledge flipping the flag
AcknowledgeToggles(h, id) ==
    [history |-> [n \in 1..Len(h) |->
                    IF h[n].ID = id THEN [h[n] EXCEPT !.Acknowledged = ~@] ELSE h[n]],
     found |-> \E n \in 1..Len(h) : h[n].ID = id]

\* AlertHistory.Acknowledge(id): not found for an id no entry has, else the
\* entry is marked acknowledged, whether it was before or not
Acknowledge(h, id) ==
    [history |-> [n \in 1..Len(h) |->
                    IF h[n].ID = id THEN [h[n] EXCEPT !.Acknowledged = TRUE] ELSE h[n]],
     found |-> \E n \in 1..Len(h) : h[n].ID = id]

\* AlertHistory.AcknowledgeAll(): every entry is marked acknowledged
AcknowledgeAll(h) == [n \in 1..Len(h) |-> [h[n] EXCEPT !.Acknowledged = TRUE]]

\* what the handlers of the AlertHistory leave alone
logFrame == <<config, starts, stopPc, stopCh, wg, pc, ticker, tickPending, ticksFired,
              locals, containerStates, outcomes, obsVars, storeVars, loadVars, apiVars>>

\* a check of the Monitor triggers an alert of one of the given types for
\* container c1 of host h1 (triggerAlert, lines 547-568), the configuration
\* asking for no webhook goroutine for it
TriggerAlert(maxAlerts, types) ==
    /\ nextId < maxAlerts
    /\ \E type \in types :
         LET value == IF type = AlertCPUThreshold THEN 85
                      ELSE IF type = AlertMemoryThreshold THEN 95 ELSE 0
             threshold == IF type = AlertCPUThreshold THEN config.CPUThreshold
                          ELSE IF type = AlertMemoryThreshold THEN config.MemoryThreshold
                          ELSE 0
             alert == Alert(nextId + 1, type, "h1", "c1", value, threshold)
         IN /\ ~Dispatches(alert)
            /\ history' = HistoryAdd(history, alert)
            /\ nextId' = nextId + 1
    /\ UNCHANGED <<webhooks, ackRet, logFrame>>

\* POST /alerts/{id}/acknowledge
AcknowledgeAlert(maxAcks, ids) ==
    /\ ackRet.calls < maxAcks
    /\ \E id \in ids :
         LET r == Acknowledge(history, id)
         IN /\ history' = r.history
            /\ ackRet' = [calls |-> ackRet.calls + 1, op |-> "Acknowledge",
                          id |-> id, found |-> r.found,
                          again |-> \E n \in 1..Len(history) :
                                       history[n].ID = id /\ history[n].Acknowledged]
    /\ UNCHANGED <<webhooks, nextId, logFrame>>

\* POST /alerts/acknowledge-all
AcknowledgeAllAlerts(maxAcks) ==
    /\ ackRet.calls < maxAcks
    /\ history' = AcknowledgeAll(history)
    /\ ackRet' = [calls |-> ackRet.calls + 1, op |-> "AcknowledgeAll",
                  id |-> 0, found |-> TRUE, again |-> FALSE]
    /\ UNCHANGED <<webhooks, nextId, logFrame>>

\* =========================================================================
\* The start of the program: parseAlertConfig (package config,
\* src/home/internal/stats/history.go lines 168-201) reads the environment
\* and NewRouter (src/home/internal/api/router.go lines 42-68) builds the
\* AlertConfigResponse the API serves.  The values strconv.ParseFloat and
\* time.ParseDuration are given are sequences of characters, and the two
\* functions are modelled as the Go library defines them: ParseFloat with
\* the decimal and the hexadecimal syntax, exponents, underscores, inf and
\* nan, rounding to the nearest float64; ParseDuration with a fraction in
\* every group and the units ns, us, ms, s, m and h, a Duration a number of
\* nanoseconds.
\* =========================================================================
DigitChars == <<"0", "1", "2", "3", "4", "5", "6", "7", "8", "9">>
IsDigit(c) == \E i \in 1..10 : DigitChars[i] = c
Digit(c) == (CHOOSE i \in 1..10 : DigitChars[i] = c) - 1

\* -------------------------------------------------------------------------
\* Natural numbers of any size (TLC's integers have 32 bits): the sequence
\* of the decimal digits, the most significant first, zero the empty one.
\* Sums and products are written digit by digit with the carries found by
\* looking down the lower digits, not by recursion.
\* -------------------------------------------------------------------------
\* TRUE.  TLC computes an argument where it is first used, which may be deep
\* inside a recursion; Known(a) at the start of an operator has it computed
\* there.
Known(a) == Len(a) >= 0
\* e, with v computed first
After(v, e) == IF v = v THEN e ELSE e

Pow10 == <<1, 10, 100, 1000, 10000, 100000, 1000000, 10000000, 100000000, 1000000000>>
\* the digit of 10^r in the integer t, r in 0..9
digitAt(t, r) == (t \div Pow10[r + 1]) % 10
\* the digit of 10^p in a
place(a, p) == IF p >= 0 /\ p < Len(a) THEN a[Len(a) - p] ELSE 0

\* ds without its leading zeros
Normal(ds) ==
    LET t == SubSeq(ds, 1, Len(ds))
    IN IF \A i \in 1..Len(t) : t[i] = 0 THEN <<>>
       ELSE SubSeq(t, CHOOSE i \in 1..Len(t) : t[i] # 0 /\ \A j \in 1..(i - 1) : t[j] = 0,
                   Len(t))

\* ds with zeros in front, n digits in all
Pad(ds, n) == [i \in 1..(n - Len(ds)) |-> 0] \o ds

digitsOf(n) == Normal([i \in 1..10 |-> digitAt(n, 10 - i)])

\* a as an integer of TLC, for a below 2^31
BigToNat(a) ==
    ((place(a, 0) + place(a, 1) * 10) + (place(a, 2) * 100 + place(a, 3) * 1000))
    + ((place(a, 4) * 10000 + place(a, 5) * 100000)
       + ((place(a, 6) * 1000000 + place(a, 7) * 10000000)
          + (place(a, 8) * 100000000 + place(a, 9) * 1000000000)))

\* the number whose places hold the sums ss, each below 20, the first of
\* them 0: a place gets a carry when the nearest place below it whose sum
\* is not 9 has a sum of 10 or more
carried(ss) ==
    LET n == Len(ss)
        carry(i) ==
            LET d == CHOOSE d \in 1..(n - i + 1) : /\ d = n - i + 1 \/ ss[i + d] # 9
                                                   /\ \A m \in 1..(d - 1) : ss[i + m] = 9
            IN i + d <= n /\ ss[i + d] >= 10
    IN Normal([i \in 1..n |-> (ss[i] + IF carry(i) THEN 1 ELSE 0) % 10])

BigAdd(a, b) ==
    LET n == (IF Len(a) > Len(b) THEN Len(a) ELSE Len(b)) + 1
    IN IF Known(a) /\ Known(b)
       THEN carried(SubSeq([i \in 1..n |-> place(a, n - i) + place(b, n - i)], 1, n))
       ELSE a

\* a - b, for b <= a: a place lends when the nearest place below it where
\* the digits differ has the smaller digit in a
BigSub(a, b) ==
    LET n == Len(a)
        s(p) == place(a, p) - place(b, p)
        borrow(p) ==
            LET d == CHOOSE d \in 1..(p + 1) : /\ d = p + 1 \/ s(p - d) # 0
                                               /\ \A m \in 1..(d - 1) : s(p - m) = 0
            IN d <= p /\ s(p - d) < 0
    IN IF Known(a) /\ Known(b)
       THEN Normal([i \in 1..n |-> (s(n - i) - (IF borrow(n - i) THEN 1 ELSE 0) + 10) % 10])
       ELSE a

BigLess(a, b) ==
    \/ Known(a) /\ Known(b) /\ Len(a) < Len(b)
    \/ /\ Len(a) = Len(b)
       /\ \E i \in 1..Len(a) : a[i] < b[i] /\ \A j \in 1..(i - 1) : a[j] = b[j]

BigLeq(a, b) == ~BigLess(b, a)

\* a * k + c for 0 <= k < 10^8 and 0 <= c < 2^31: every digit of a times k has
\* nine digits at most, so a column sums to 90 at most; the units of a column
\* and the tens of the column below it are the sum of a place
BigMulAdd(a, k, c) ==
    LET n == Len(a)
        ts == SubSeq([i \in 1..n |-> a[i] * k], 1, n)
        t(q) == place(ts, q)
        col(p) == ((IF p >= 0 /\ p <= 9 THEN digitAt(c, p) ELSE 0) + digitAt(t(p), 0))
                  + (((digitAt(t(p - 1), 1) + digitAt(t(p - 2), 2))
                      + (digitAt(t(p - 3), 3) + digitAt(t(p - 4), 4)))
                     + ((digitAt(t(p - 5), 5) + digitAt(t(p - 6), 6))
                        + (digitAt(t(p - 7), 7) + digitAt(t(p - 8), 8))))
        w == n + 10
        cs == SubSeq([i \in 1..w |-> col(w - i)], 1, w)
    IN IF Known(a) /\ k >= 0 /\ c >= 0
       THEN carried(SubSeq([i \in 1..w |-> (cs[i] % 10) + (IF i < w THEN cs[i + 1] \div 10 ELSE 0)],
                           1, w))
       ELSE a

\* a * 10^n
BigTimesPow10(a, n) == IF a = <<>> THEN <<>> ELSE a \o [i \in 1..n |-> 0]

\* a times the digits lo..hi of b, eight digits at a time
RECURSIVE mulBig(_, _, _, _)
mulBig(a, b, lo, hi) ==
    IF hi - lo < 8 THEN BigMulAdd(a, BigToNat(SubSeq(b, lo, hi)), 0)
    ELSE LET mid == (lo + hi) \div 2
             high == mulBig(a, b, lo, mid)
             low == mulBig(a, b, mid + 1, hi)
         IN IF Known(high) /\ Known(low) THEN BigAdd(BigTimesPow10(high, hi - mid), low)
            ELSE a

BigMul(a, b) == IF Known(a) /\ Known(b) THEN mulBig(a, b, 1, Len(b)) ELSE a

\* long division of the digits lo..hi of a by b > 0, r the remainder left by
\* the digits before them: the digits of the quotient and the remainder
\* one step of the long division by b: the digit d of t, and what is left
quotientDigit(b, t) ==
    CHOOSE d \in 0..9 : BigLeq(BigMulAdd(b, d, 0), t) /\ BigLess(t, BigMulAdd(b, d + 1, 0))
digitAndRest(b, t, d) == [ds |-> <<d>>, r |-> BigSub(t, BigMulAdd(b, d, 0))]
divisionStep(b, t) == digitAndRest(b, t, quotientDigit(b, t))
RECURSIVE divSeg(_, _, _, _, _)
divSeg(a, b, lo, hi, r) ==
    IF lo > hi THEN [ds |-> <<>>, r |-> r]
    ELSE IF lo = hi THEN divisionStep(b, BigMulAdd(r, 10, a[lo]))
    ELSE LET mid == (lo + hi) \div 2
             high == divSeg(a, b, lo, mid, r)
             low == divSeg(a, b, mid + 1, hi, high.r)
         IN IF Len(high.r) >= 0 THEN [ds |-> high.ds \o low.ds, r |-> low.r] ELSE high

\* quotient q and remainder r of a by 10^k: a cut before its last k digits
cutAt(a, k) ==
    [q |-> SubSeq(a, 1, IF Len(a) > k THEN Len(a) - k ELSE 0),
     r |-> Normal(SubSeq(a, IF Len(a) > k THEN Len(a) - k + 1 ELSE 1, Len(a)))]

\* quotient q and remainder r of a by b, b > 0: by cutting a where b is a power
\* of ten, by long division otherwise
IsPow10(b) == b # <<>> /\ b[1] = 1 /\ \A i \in 2..Len(b) : b[i] = 0
longDivision(d) == [q |-> Normal(d.ds), r |-> d.r]
BigDivMod(a, b) ==
    IF ~(Known(a) /\ Known(b)) THEN [q |-> a, r |-> b]
    ELSE IF IsPow10(b) THEN cutAt(a, Len(b) - 1)
    ELSE longDivision(divSeg(a, b, 1, Len(a), <<>>))

\* 2^n for n <= 26 and 5^n for n <= 11
PowersOf2 ==
    <<1, 2, 4, 8, 16, 32, 64, 128, 256, 512, 1024, 2048, 4096, 8192, 16384, 32768, 65536,
      131072, 262144, 524288, 1048576, 2097152, 4194304, 8388608, 16777216, 33554432,
      67108864>>
PowersOf5 ==
    <<1, 5, 25, 125, 625, 3125, 15625, 78125, 390625, 1953125, 9765625, 48828125>>
pow(b, n) == IF b = 2 THEN PowersOf2[n + 1] ELSE PowersOf5[n + 1]

\* a * k^n for k = 2 or 5, the power in factors below 10^8
RECURSIVE BigTimesPow(_, _, _)
BigTimesPow(a, k, n) ==
    IF Known(a) /\ n <= (IF k = 2 THEN 26 ELSE 11) THEN BigMulAdd(a, pow(k, n), 0)
    ELSE LET h == BigTimesPow(a, k, n \div 2)
         IN IF Known(h) THEN BigTimesPow(h, k, n - n \div 2) ELSE h

BigShl(a, n) == BigTimesPow(a, 2, n)

IsOdd(a) == a # <<>> /\ a[Len(a)] % 2 = 1

\* -------------------------------------------------------------------------
\* float64: class "finite" with the value (-1)^neg * mant * 2^exp, where
\* 2^52 <= mant < 2^53, or mant < 2^52 and exp = -1074 (subnormal), or mant
\* zero and exp 0; class "inf"; class "nan".
\* -------------------------------------------------------------------------
Finite(neg, mant, exp) ==
    [class |-> "finite", neg |-> neg, mant |-> mant, exp |-> IF mant = <<>> THEN 0 ELSE exp]
Inf(neg) == [class |-> "inf", neg |-> neg, mant |-> <<>>, exp |-> 0]
NaN == [class |-> "nan", neg |-> FALSE, mant |-> <<>>, exp |-> 0]

MantBits == 53
MinExp == -1074
MaxExp == 971
\* 2^52 and 2^53
MinNormal == <<4, 5, 0, 3, 5, 9, 9, 6, 2, 7, 3, 7, 0, 4, 9, 6>>
MantLimit == <<9, 0, 0, 7, 1, 9, 9, 2, 5, 4, 7, 4, 0, 9, 9, 2>>

\* floor(m / 2^t): m * 5^t without its last t digits
BigShr(m, t) == cutAt(BigTimesPow(m, 5, t), t).q

\* quotient q and remainder r of n by den, with den
dividedBy(n, den) == BigDivMod(n, den) @@ [den |-> den]
\* floor(a / b * 2^s) and what is left, over the denominator den
scaled(a, b, s) ==
    dividedBy(IF s >= 0 THEN BigShl(a, s) ELSE IF IsPow10(b) THEN BigTimesPow(a, 5, -s) ELSE a,
              IF s >= 0 THEN b ELSE IF IsPow10(b) THEN BigTimesPow10(b, -s) ELSE BigShl(b, -s))

\* what rounding gives: too large for a float64 (ovf), zero, or mant * 2^exp
RoundOver == [ovf |-> TRUE, mant |-> <<>>, exp |-> 0]
RoundZero == [ovf |-> FALSE, mant |-> <<>>, exp |-> 0]
\* the mantissa m at the exponent e; a mantissa rounded up to 2^53 is 2^52 at
\* the next exponent
packed(m, e) ==
    IF m = MantLimit
    THEN IF e + 1 > MaxExp THEN RoundOver ELSE [ovf |-> FALSE, mant |-> MinNormal, exp |-> e + 1]
    ELSE IF e > MaxExp THEN RoundOver
    ELSE [ovf |-> FALSE, mant |-> m, exp |-> IF m = <<>> THEN 0 ELSE e]
\* d.q rounded to the nearest, a tie to the even one: up when twice the
\* remainder is above the denominator, or equal to it with d.q odd
roundsUp(d, twice) == BigLess(d.den, twice) \/ (twice = d.den /\ IsOdd(d.q))
nearest(d) == IF roundsUp(d, BigMulAdd(d.r, 2, 0)) THEN BigMulAdd(d.q, 1, 1) ELSE d.q
\* the number of bits q has above 53, up to 12
excessBits(q) ==
    CHOOSE j \in 0..12 :
        /\ BigLess(q, BigMulAdd(MantLimit, pow(2, j), 0))
        /\ j > 0 => ~BigLess(q, BigMulAdd(MantLimit, pow(2, j - 1), 0))
\* a / b * 2^c as a mantissa at the exponent e or, if the quotient has more
\* than 53 bits there, at the exponent that many above
RECURSIVE roundAt(_, _, _, _)
fitted(a, b, c, e, d, j) == IF j > 0 THEN roundAt(a, b, c, e + j) ELSE packed(nearest(d), e)
quotientAt(a, b, c, e, d) == IF Known(d.q) THEN fitted(a, b, c, e, d, excessBits(d.q)) ELSE d
roundAt(a, b, c, e) == quotientAt(a, b, c, e, scaled(a, b, c - e))

\* the float64 nearest to a / b * 2^c for a, b > 0, ties to the even mantissa:
\* low is a lower bound of the binary logarithm of the value, and the least
\* exponent is MinExp
roundFrom(a, b, c, low) ==
    IF low >= MaxExp + MantBits THEN RoundOver
    ELSE IF low + 11 < MinExp THEN RoundZero
    ELSE roundAt(a, b, c, IF low - (MantBits - 1) < MinExp THEN MinExp
                          ELSE low - (MantBits - 1))
roundRatio(a, b, c) ==
    roundFrom(a, b, c, ((Len(a) - Len(b) - 1) * 3322) \div 1000 + c - 1)

\* a rounded value as a float64 that is not negative, +Inf when it is too
\* large for a float64
rounded(r) == IF r.ovf THEN Inf(FALSE) ELSE Finite(FALSE, r.mant, r.exp)
\* float64(n) for a natural number n
Float64(n) == IF n = <<>> THEN Finite(FALSE, <<>>, 0) ELSE rounded(roundRatio(n, <<1>>, 0))
\* x * y for x, y not negative and not NaN, not 0 * Inf
Float64Mul(x, y) ==
    IF x.class = "inf" \/ y.class = "inf" THEN Inf(FALSE)
    ELSE IF x.mant = <<>> \/ y.mant = <<>> THEN Finite(FALSE, <<>>, 0)
    ELSE rounded(roundRatio(BigMul(x.mant, y.mant), <<1>>, x.exp + y.exp))
\* float64(a) / float64(b) for natural numbers a, b > 0 that float64 holds as
\* they are: the float64 nearest to a / b
Float64Ratio(a, b) == rounded(roundRatio(a, b, 0))
\* the whole part of x, for x finite and not negative: 0 when x is below 1,
\* as it is with a mantissa below 2^53 and an exponent of -53 or less
Truncated(x) ==
    IF x.exp >= 0 THEN BigShl(x.mant, x.exp)
    ELSE IF x.exp <= -MantBits THEN <<>>
    ELSE BigShr(x.mant, -x.exp)
\* uint64(x) for x finite, not negative and below 2^64
Uint64(x) == Truncated(x)
\* float64(a) / y for a natural number a > 0 that float64 holds as it is and
\* y a whole number above 0 or +Inf: a finite number divided by +Inf is 0,
\* and a finite y is the whole number it is written with, or its mantissa
\* times a power of 2 when that number is long
Float64Over(a, y) ==
    IF y.class = "inf" THEN Finite(FALSE, <<>>, 0)
    ELSE rounded(roundRatio(a, IF y.exp < MantBits THEN Truncated(y) ELSE y.mant,
                            IF y.exp < MantBits THEN 0 ELSE -y.exp))

\* the comparisons of parseAlertConfig on a float64: x > 0 and x <= n
Positive(x) == x.class # "nan" /\ ~x.neg /\ (x.class = "inf" \/ x.mant # <<>>)
AtMost(x, n) ==
    /\ x.class # "nan"
    /\ \/ x.neg
       \/ /\ x.class = "finite"
          /\ \/ x.mant = <<>>
             \/ x.exp <= -MantBits
             \/ x.exp < 0 /\ BigLeq(x.mant, BigShl(digitsOf(n), -x.exp))

\* -------------------------------------------------------------------------
\* strconv.ParseFloat(s, 64) of the Go library, s a sequence of characters
\* -------------------------------------------------------------------------
UpperChars == <<"A", "B", "C", "D", "E", "F", "G", "H", "I", "J", "K", "L", "M",
                "N", "O", "P", "Q", "R", "S", "T", "U", "V", "W", "X", "Y", "Z">>
LowerChars == <<"a", "b", "c", "d", "e", "f", "g", "h", "i", "j", "k", "l", "m",
                "n", "o", "p", "q", "r", "s", "t", "u", "v", "w", "x", "y", "z">>
lower(c) ==
    IF \E i \in 1..26 : UpperChars[i] = c
    THEN LowerChars[CHOOSE i \in 1..26 : UpperChars[i] = c] ELSE c
IsHexLetter(c) == \E i \in 1..6 : LowerChars[i] = lower(c)
HexValue(c) ==
    IF IsDigit(c) THEN Digit(c) ELSE 9 + CHOOSE i \in 1..6 : LowerChars[i] = lower(c)
IsSign(c) == c = "+" \/ c = "-"

\* how many characters s and prefix share at the start, the case of s ignored
commonPrefixLenIgnoreCase(s, prefix) ==
    LET n == IF Len(prefix) > Len(s) THEN Len(s) ELSE Len(prefix)
        differ == {i \in 1..n : lower(s[i]) # prefix[i]}
    IN IF differ = {} THEN n ELSE (CHOOSE i \in differ : \A k \in differ : i <= k) - 1

\* special: "inf" and "infinity" with or without a sign, "nan" without one;
\* n is the number of characters read
special(s) ==
    LET signed == s # <<>> /\ IsSign(s[1])
        body == IF signed THEN Tail(s) ELSE s
        nsign == IF signed THEN 1 ELSE 0
        inf == commonPrefixLenIgnoreCase(body, <<"i", "n", "f", "i", "n", "i", "t", "y">>)
        n == IF 3 < inf /\ inf < 8 THEN 3 ELSE inf
    IN IF n = 3 \/ n = 8
       THEN [ok |-> TRUE, value |-> Inf(signed /\ s[1] = "-"), n |-> nsign + n]
       ELSE IF ~signed /\ commonPrefixLenIgnoreCase(s, <<"n", "a", "n">>) = 3
            THEN [ok |-> TRUE, value |-> NaN, n |-> 3]
            ELSE [ok |-> FALSE, value |-> NaN, n |-> 0]

\* underscoreOK: every underscore stands between two digits, the base prefix
\* counting as a digit before it
underscoreOK(s) ==
    LET body == IF s # <<>> /\ IsSign(s[1]) THEN Tail(s) ELSE s
        prefix == Len(body) >= 2 /\ body[1] = "0" /\ lower(body[2]) \in {"b", "o", "x"}
        hex == prefix /\ lower(body[2]) = "x"
        first == IF prefix THEN 3 ELSE 1
        IsNumeral(j) == IsDigit(body[j]) \/ (hex /\ IsHexLetter(body[j]))
    IN \A j \in first..Len(body) :
           body[j] = "_" => /\ IF j = first THEN prefix ELSE IsNumeral(j - 1)
                            /\ j < Len(body) /\ IsNumeral(j + 1)

\* the index after the digits, underscores and the one point of a mantissa
\* that begins at i: the first index with another character or a second point
mantissaEnd(s, i, hex) ==
    LET IsPart(c) == c = "_" \/ c = "." \/ IsDigit(c) \/ (hex /\ IsHexLetter(c))
        Ends(j) == ~IsPart(s[j]) \/ (s[j] = "." /\ \E k \in i..(j - 1) : s[k] = ".")
    IN CHOOSE j \in i..(Len(s) + 1) : /\ j <= Len(s) => Ends(j)
                                      /\ \A k \in i..(j - 1) : ~Ends(k)

\* the index after the digits and underscores of an exponent that begins at i
exponentEnd(s, i) ==
    IF i > Len(s) THEN i
    ELSE CHOOSE j \in i..(Len(s) + 1) :
             /\ j <= Len(s) => ~(IsDigit(s[j]) \/ s[j] = "_")
             /\ \A k \in i..(j - 1) : IsDigit(s[k]) \/ s[k] = "_"

\* the number the n digits s begins with write
digitsValue(s, n) == Normal([k \in 1..n |-> Digit(s[k])])

\* the exponent its digits write, no digit taken once it has reached 10000:
\* the number of the first digits up to the one that brings it there
exponentValue(ds) ==
    BigToNat(digitsValue(ds, CHOOSE k \in 0..Len(ds) :
                                 /\ k < Len(ds) => Len(digitsValue(ds, k)) >= 5
                                 /\ k > 0 => Len(digitsValue(ds, k - 1)) < 5))

\* the number the digits lo..hi of ds write in base 16
RECURSIVE hexNumber(_, _, _)
hexNumber(ds, lo, hi) ==
    IF lo > hi THEN <<>>
    ELSE IF lo = hi THEN digitsOf(HexValue(ds[lo]))
    ELSE BigAdd(BigShl(hexNumber(ds, lo, (lo + hi) \div 2), 4 * (hi - (lo + hi) \div 2)),
                hexNumber(ds, (lo + hi) \div 2 + 1, hi))

\* readFloat: [sign] mantissa [exponent], the mantissa decimal or, after 0x,
\* hexadecimal with an exponent p that must be there.  The number read is
\* mant * 10^exp, with hex mant * 2^exp; n is the number of characters read.
readFloat(s) ==
    LET i0 == IF s # <<>> /\ IsSign(s[1]) THEN 2 ELSE 1
        hex == i0 + 2 <= Len(s) /\ s[i0] = "0" /\ lower(s[i0 + 1]) = "x"
        i1 == IF hex THEN i0 + 2 ELSE i0
        i2 == mantissaEnd(s, i1, hex)
        IsMantDigit(c) == IsDigit(c) \/ (hex /\ IsHexLetter(c))
        digits == SelectSeq(SubSeq(s, i1, i2 - 1), IsMantDigit)
        dots == {k \in i1..(i2 - 1) : s[k] = "."}
        after == IF dots = {} THEN 0
                 ELSE Len(SelectSeq(SubSeq(s, (CHOOSE k \in dots : TRUE) + 1, i2 - 1),
                                    IsMantDigit))
        hasExp == i2 <= Len(s) /\ lower(s[i2]) = (IF hex THEN "p" ELSE "e")
        i3 == IF i2 + 1 <= Len(s) /\ IsSign(s[i2 + 1]) THEN i2 + 2 ELSE i2 + 1
        i4 == exponentEnd(s, i3)
        e == exponentValue(SelectSeq(SubSeq(s, i3, i4 - 1), IsDigit))
             * (IF s[i3 - 1] = "-" THEN -1 ELSE 1)
        n == IF hasExp THEN i4 - 1 ELSE i2 - 1
    IN [ok |-> /\ digits # <<>>
               /\ hasExp => i3 <= Len(s) /\ IsDigit(s[i3])
               /\ hex => hasExp
               /\ (\E k \in 1..n : s[k] = "_") => underscoreOK(SubSeq(s, 1, n)),
        neg |-> s # <<>> /\ s[1] = "-",
        hex |-> hex,
        mant |-> IF hex THEN hexNumber(digits, 1, Len(digits)) ELSE Normal([k \in 1..Len(digits) |-> Digit(digits[k])]),
        exp |-> (IF hasExp THEN e ELSE 0) - (IF hex THEN 4 * after ELSE after),
        n |-> n]

ErrSyntax == "invalid syntax"
ErrRange == "value out of range"

\* the float64 nearest to mant * 10^exp, with hex to mant * 2^exp
floatBits(mant, exp, hex) ==
    IF mant = <<>> THEN RoundZero
    ELSE IF (hex /\ exp >= MaxExp + MantBits) \/ (~hex /\ Len(mant) + exp > 309) THEN RoundOver
    ELSE IF (hex /\ exp + 4 * Len(mant) < MinExp) \/ (~hex /\ Len(mant) + exp < -323)
         THEN RoundZero
    ELSE roundRatio(IF ~hex /\ exp >= 0 THEN BigTimesPow10(mant, exp) ELSE mant,
                    IF ~hex /\ exp < 0 THEN BigTimesPow10(<<1>>, -exp) ELSE <<1>>,
                    IF hex THEN exp ELSE 0)

\* strconv.ParseFloat(s, 64): the value and the error ("" for nil).  A word
\* for an infinity or a NaN must be all of s; so must the number readFloat
\* reads; a number too large is an infinity with ErrRange.
SyntaxError == [value |-> Finite(FALSE, <<>>, 0), err |-> ErrSyntax]
converted(neg, bits) ==
    IF bits.ovf THEN [value |-> Inf(neg), err |-> ErrRange]
    ELSE [value |-> Finite(neg, bits.mant, bits.exp), err |-> ""]
number(s, rf) ==
    IF ~rf.ok \/ rf.n # Len(s) THEN SyntaxError
    ELSE converted(rf.neg, floatBits(rf.mant, rf.exp, rf.hex))
parsed(s, sp) ==
    IF sp.ok THEN IF sp.n = Len(s) THEN [value |-> sp.value, err |-> ""] ELSE SyntaxError
    ELSE number(s, readFloat(s))
ParseFloat(s) == parsed(s, special(s))

\* -------------------------------------------------------------------------
\* time.Duration: a number of nanoseconds, [neg, ns] with ns the magnitude;
\* time.ParseDuration and Duration.String of the Go library
\* -------------------------------------------------------------------------
Duration(neg, ns) == [neg |-> neg /\ ns # <<>>, ns |-> ns]
Nanosecond == <<1>>
Microsecond == <<1, 0, 0, 0>>
Millisecond == <<1, 0, 0, 0, 0, 0, 0>>
Second == <<1, 0, 0, 0, 0, 0, 0, 0, 0, 0>>
Minute == <<6, 0, 0, 0, 0, 0, 0, 0, 0, 0, 0>>
Hour == <<3, 6, 0, 0, 0, 0, 0, 0, 0, 0, 0, 0, 0>>
\* 1 << 63
MaxUint63 == <<9, 2, 2, 3, 3, 7, 2, 0, 3, 6, 8, 5, 4, 7, 7, 5, 8, 0, 8>>

\* unitMap, <<>> for a unit it does not have
unitMap(u) ==
    IF u = <<"n", "s">> THEN Nanosecond
    ELSE IF u \in {<<"u", "s">>, <<"µ", "s">>, <<"μ", "s">>} THEN Microsecond
    ELSE IF u = <<"m", "s">> THEN Millisecond
    ELSE IF u = <<"s">> THEN Second
    ELSE IF u = <<"m">> THEN Minute
    ELSE IF u = <<"h">> THEN Hour
    ELSE <<>>

\* the number of digits s begins with
leadingDigits(s) ==
    CHOOSE n \in 0..Len(s) : /\ \A i \in 1..n : IsDigit(s[i])
                             /\ n < Len(s) => ~IsDigit(s[n + 1])

\* leadingInt: the integer s begins with and the rest of s; an error above 1<<63
leadingInt(s) ==
    LET n == leadingDigits(s)
        x == digitsValue(s, n)
    IN [x |-> x, n |-> n, rem |-> SubSeq(s, n + 1, Len(s)), err |-> BigLess(MaxUint63, x)]

\* leadingFraction: of the digits s begins with, those taken before the
\* number passes 1<<63 are x, and digits is their number
leadingFraction(s) ==
    LET n == leadingDigits(s)
        k == CHOOSE k \in 0..n : /\ BigLeq(digitsValue(s, k), MaxUint63)
                                 /\ k < n => BigLess(MaxUint63, digitsValue(s, k + 1))
    IN [x |-> digitsValue(s, k), digits |-> k, n |-> n, rem |-> SubSeq(s, n + 1, Len(s))]

\* scale *= 10 in float64: the float64 nearest to ten times scale, which is
\* 5 * mant * 2^(exp + 1); +Inf when that is too large and when scale is +Inf
timesTen(x) ==
    IF x.class = "inf" THEN x
    ELSE rounded(roundRatio(BigMulAdd(x.mant, 5, 0), <<1>>, x.exp + 1))
\* x after n times scale *= 10: the first half of them gives h, the second
\* half starts from h
RECURSIVE scaleFrom(_, _)
scaleFrom(x, n) ==
    IF n = 0 THEN x
    ELSE IF n = 1 THEN timesTen(x)
    ELSE CHOOSE y \in {scaleFrom(h, n - n \div 2) : h \in {scaleFrom(x, n \div 2)}} : TRUE
\* scale: the float64 1 multiplied by 10 once for every digit taken
scaleOf(k) == scaleFrom(Finite(FALSE, MinNormal, -52), k)

\* uint64(float64(f) * (float64(unit) / scale)) for the digits taken; unit is
\* a float64 as it is
fractionOf(f, unit, digits) ==
    Uint64(Float64Mul(Float64(f), Float64Over(unit, scaleOf(digits))))

\* the number of characters of the unit s begins with: up to a digit or a point
IsNumberChar(c) == c = "." \/ IsDigit(c)
unitLength(s) ==
    CHOOSE n \in 0..Len(s) : /\ \A i \in 1..n : ~IsNumberChar(s[i])
                             /\ n < Len(s) => IsNumberChar(s[n + 1])

\* one turn of the loop of ParseDuration: the group [0-9]*(\.[0-9]*)?unit that
\* g is, with total the sum of the groups before it; 1 << 64 is 0 in a uint64
Failed == [err |-> TRUE, d |-> <<>>]
NoFraction(s) == [x |-> <<>>, digits |-> 0, n |-> 0, rem |-> s]
Uint64Limit == <<1, 8, 4, 4, 6, 7, 4, 4, 0, 7, 3, 7, 0, 9, 5, 5, 1, 6, 1, 6>>
\* after d += v
added(d) == IF BigLess(MaxUint63, d) THEN Failed ELSE [err |-> FALSE, d |-> d]
\* a sum of two numbers up to 1 << 63 as a uint64
wrapped(d) == IF d = Uint64Limit THEN <<>> ELSE d
\* v with the fraction of the group, and d += v
withFraction(v, total) ==
    IF BigLess(MaxUint63, v) THEN Failed ELSE added(wrapped(BigAdd(total, v)))
\* v *= unit, after the test v > 1<<63 / unit, which is v * unit > 1<<63
timesUnit(v, frac, unit, total) ==
    IF BigLess(MaxUint63, v) THEN Failed
    ELSE withFraction(IF frac.x # <<>> THEN BigAdd(v, fractionOf(frac.x, unit, frac.digits))
                      ELSE v,
                      total)
\* the unit: the i characters up to the next digit or point
unitOf(x, frac, i, unit, total) ==
    IF i = 0 \/ unit = <<>> THEN Failed
    ELSE timesUnit(BigMul(x, unit), frac, unit, total)
afterFraction(int, frac, i, total) ==
    IF int.n = 0 /\ frac.n = 0 THEN Failed
    ELSE unitOf(int.x, frac, i, unitMap(SubSeq(frac.rem, 1, i)), total)
afterPoint(int, frac, total) == afterFraction(int, frac, unitLength(frac.rem), total)
afterInt(int, total) ==
    IF int.err THEN Failed
    ELSE afterPoint(int,
                    IF int.rem # <<>> /\ int.rem[1] = "." THEN leadingFraction(Tail(int.rem))
                    ELSE NoFraction(int.rem),
                    total)
durationGroup(g, total) ==
    IF ~IsNumberChar(g[1]) THEN Failed ELSE afterInt(leadingInt(g), total)

\* the loop of ParseDuration over s.  A turn reads a number and the unit
\* after it, up to the next digit or point, so a group begins at the first
\* character and at every digit or point that follows another character,
\* and it ends before the next group.  The groups that begin at lo..hi are
\* read in their order, st the outcome of the groups before them: those of
\* the first half of lo..hi, then those of the second half; after an error
\* no group is read.
groupAt(s, i) == i = 1 \/ (IsNumberChar(s[i]) /\ ~IsNumberChar(s[i - 1]))
groupEnd(s, i) ==
    CHOOSE j \in i..Len(s) : /\ j < Len(s) => groupAt(s, j + 1)
                             /\ \A k \in (i + 1)..j : ~groupAt(s, k)
RECURSIVE durationGroups(_, _, _, _)
durationGroups(s, lo, hi, st) ==
    IF st.err \/ lo > hi THEN st
    ELSE IF lo = hi
         THEN IF groupAt(s, lo) THEN durationGroup(SubSeq(s, lo, groupEnd(s, lo)), st.d)
              ELSE st
         ELSE CHOOSE r \in {durationGroups(s, (lo + hi) \div 2 + 1, hi, h) :
                                h \in {durationGroups(s, lo, (lo + hi) \div 2, st)}} : TRUE

\* time.ParseDuration(s): the Duration and whether it is an error
ZeroDuration == Duration(FALSE, <<>>)
signedDuration(neg, g) ==
    IF g.err \/ (~neg /\ BigLeq(MaxUint63, g.d)) THEN [err |-> TRUE, value |-> ZeroDuration]
    ELSE [err |-> FALSE, value |-> Duration(neg, g.d)]
unsignedDuration(neg, body) ==
    IF body = <<"0">> THEN [err |-> FALSE, value |-> ZeroDuration]
    ELSE IF body = <<>> THEN [err |-> TRUE, value |-> ZeroDuration]
    ELSE signedDuration(neg, durationGroups(body, 1, Len(body), [err |-> FALSE, d |-> <<>>]))
ParseDuration(s) ==
    unsignedDuration(s # <<>> /\ s[1] = "-", IF s # <<>> /\ IsSign(s[1]) THEN Tail(s) ELSE s)

\* the digits lo..hi of a number as text
RECURSIVE digitsText(_, _, _)
digitsText(ds, lo, hi) ==
    IF lo > hi THEN ""
    ELSE IF lo = hi THEN DigitChars[ds[lo] + 1]
    ELSE digitsText(ds, lo, (lo + hi) \div 2) \o digitsText(ds, (lo + hi) \div 2 + 1, hi)
fmtInt(v) == IF v = <<>> THEN "0" ELSE digitsText(v, 1, Len(v))

\* fmtFrac: the fraction of v / 10^prec as text, "." and the digits without
\* the zeros at the end, nothing for a fraction of zero
lastUsed(ds) ==
    CHOOSE k \in 0..Len(ds) : (k > 0 => ds[k] # 0) /\ \A j \in (k + 1)..Len(ds) : ds[j] = 0
fracText(ds, k) == IF k = 0 THEN "" ELSE "." \o digitsText(ds, 1, k)
fracDigits(ds) == fracText(ds, lastUsed(ds))
fmtFrac(v, prec) == fracDigits(Pad(cutAt(v, prec).r, prec))

\* the hours and minutes of min minutes, and the seconds s, as text
clockText(min, s) ==
    (IF min >= 60 THEN fmtInt(digitsOf(min \div 60)) \o "h" ELSE "")
    \o (IF min > 0 THEN fmtInt(digitsOf(min % 60)) \o "m" ELSE "")
    \o fmtInt(digitsOf(s))
\* the same for hi * 10^5 + lo seconds: the division by 60 in two steps
secondsText(hi, lo) ==
    clockText((hi \div 60) * 100000 + ((hi % 60) * 100000 + lo) \div 60,
              ((hi % 60) * 100000 + lo) % 60)
wholeSeconds(sec) == secondsText(BigToNat(sec.q), BigToNat(sec.r))

\* Duration.String(): "0s", below a second one of the units ns, µs and ms,
\* from a second on hours, minutes and seconds
magnitudeText(u) ==
    IF u = <<>> THEN "0s"
    ELSE IF BigLess(u, Microsecond) THEN fmtInt(u) \o "ns"
    ELSE IF BigLess(u, Millisecond) THEN fmtInt(cutAt(u, 3).q) \o fmtFrac(u, 3) \o "µs"
    ELSE IF BigLess(u, Second) THEN fmtInt(cutAt(u, 6).q) \o fmtFrac(u, 6) \o "ms"
    ELSE wholeSeconds(cutAt(cutAt(u, 9).q, 5)) \o fmtFrac(u, 9) \o "s"
DurationString(d) == (IF d.neg THEN "-" ELSE "") \o magnitudeText(d.ns)

\* the environment variables parseAlertConfig reads
Environment(enabled, url, filter, cpu, mem, interval) ==
    [ALERTS_ENABLED |-> enabled, ALERTS_WEBHOOK_URL |-> url, ALERTS_FILTER |-> filter,
     ALERTS_CPU_THRESHOLD |-> cpu, ALERTS_MEMORY_THRESHOLD |-> mem,
     ALERTS_CHECK_INTERVAL |-> interval]

\* n * time.Second, and d > 0 for a Duration d
Seconds(n) == Duration(FALSE, BigMul(Second, digitsOf(n)))
PositiveDuration(d) == ~d.neg /\ d.ns # <<>>

\* the value a variable gives when it is set and parses, else the default
parsedThreshold(p, default) == IF p.err = "" THEN p.value ELSE default
thresholdUnchecked(s, default) ==
    IF s # <<>> THEN parsedThreshold(ParseFloat(s), default) ELSE default
parsedInterval(p, default) == IF ~p.err THEN p.value ELSE default
intervalUnchecked(s, default) ==
    IF s # <<>> THEN parsedInterval(ParseDuration(s), default) ELSE default

\* parseAlertConfig taking every value that parses
parseAlertConfigUnchecked(e) ==
    [Enabled |-> e.ALERTS_ENABLED = "true",
     WebhookURL |-> e.ALERTS_WEBHOOK_URL,
     CPUThreshold |-> thresholdUnchecked(e.ALERTS_CPU_THRESHOLD,
                                         Float64(digitsOf(DefaultCPUThreshold))),
     MemoryThreshold |-> thresholdUnchecked(e.ALERTS_MEMORY_THRESHOLD,
                                            Float64(digitsOf(DefaultMemoryThreshold))),
     CheckInterval |-> intervalUnchecked(e.ALERTS_CHECK_INTERVAL,
                                         Seconds(DefaultCheckInterval)),
     AlertsFilter |-> IF e.ALERTS_FILTER # "" THEN e.ALERTS_FILTER ELSE "all"]

\* lines 183-185 and 189-191: the threshold of a variable that is set, the
\* parsed value when err == nil && v > 0 && v <= 100
validThreshold(p, default) ==
    IF p.err = "" /\ Positive(p.value) /\ AtMost(p.value, 100) THEN p.value ELSE default
threshold(s, default) ==
    IF s # <<>> THEN validThreshold(ParseFloat(s), default) ELSE default

\* lines 195-197: the interval of a variable that is set, the parsed value
\* when err == nil && interval > 0
validInterval(p, default) ==
    IF ~p.err /\ PositiveDuration(p.value) THEN p.value ELSE default
checkInterval(s, default) ==
    IF s # <<>> THEN validInterval(ParseDuration(s), default) ELSE default

\* parseAlertConfig, lines 168-201
parseAlertConfig(e) ==
    [Enabled |-> e.ALERTS_ENABLED = "true",
     WebhookURL |-> e.ALERTS_WEBHOOK_URL,
     CPUThreshold |-> threshold(e.ALERTS_CPU_THRESHOLD,
                                Float64(digitsOf(DefaultCPUThreshold))),
     MemoryThreshold |-> threshold(e.ALERTS_MEMORY_THRESHOLD,
                                   Float64(digitsOf(DefaultMemoryThreshold))),
     CheckInterval |-> checkInterval(e.ALERTS_CHECK_INTERVAL,
                                     Seconds(DefaultCheckInterval)),
     AlertsFilter |-> IF e.ALERTS_FILTER # "" THEN e.ALERTS_FILTER ELSE "all"]

\* the AlertConfigResponse of NewRouter with the URL in place of the flag
AlertConfigResponseWithURL(alerts, withMonitor) ==
    IF withMonitor
    THEN [Enabled |-> alerts.Enabled, CPUThreshold |-> alerts.CPUThreshold,
          MemoryThreshold |-> alerts.MemoryThreshold,
          CheckInterval |-> DurationString(alerts.CheckInterval),
          WebhookEnabled |-> alerts.WebhookURL]
    ELSE [Enabled |-> FALSE, CPUThreshold |-> Finite(FALSE, <<>>, 0),
          MemoryThreshold |-> Finite(FALSE, <<>>, 0), CheckInterval |-> "",
          WebhookEnabled |-> ""]

\* the AlertConfigResponse NewRouter hands to NewAlertHandlers (lines 51-65):
\* with a monitor the five fields below, without one only Enabled: false, the
\* other fields at their zero values
AlertConfigResponse(alerts, withMonitor) ==
    IF withMonitor
    THEN [Enabled |-> alerts.Enabled, CPUThreshold |-> alerts.CPUThreshold,
          MemoryThreshold |-> alerts.MemoryThreshold,
          CheckInterval |-> DurationString(alerts.CheckInterval),
          WebhookEnabled |-> alerts.WebhookURL # ""]
    ELSE [Enabled |-> FALSE, CPUThreshold |-> Finite(FALSE, <<>>, 0),
          MemoryThreshold |-> Finite(FALSE, <<>>, 0), CheckInterval |-> "",
          WebhookEnabled |-> FALSE]

\* what the start of the program leaves alone
loadFrame == <<monitorVars, storeVars, logVars, apiVars>>

\* run r: NewConfig calls parseAlertConfig
NewConfig(r) ==
    /\ env[r] # <<>>
    /\ loaded[r] = <<>>
    /\ loaded' = [loaded EXCEPT ![r] = <<parseAlertConfig(env[r][1])>>]
    /\ UNCHANGED <<env, view, loadFrame>>

\* run r: NewRouter is called with the configuration, opts.AlertMonitor set
\* or not
NewRouter(r) ==
    /\ loaded[r] # <<>>
    /\ view[r] = <<>>
    /\ \E withMonitor \in BOOLEAN :
         view' = [view EXCEPT ![r] = <<[AlertMonitor |-> withMonitor,
                                        config |-> AlertConfigResponse(loaded[r][1],
                                                                       withMonitor)]>>]
    /\ UNCHANGED <<env, loaded, loadFrame>>

\* =========================================================================
\* The container handlers of the API (package api,
\* src/home/internal/api/handlers.go lines 103-153): StopContainer and
\* RestartContainer answer 202 and leave the Docker operation to a goroutine.
\* A request is followed from the router to the end of its goroutine:
\* pc "none" (not made), "handler" (the handler is called), "go" (the
\* response is written, the goroutine not started), "returned"; docker is the
\* Docker operation: "none", "running", "ok" or "failed".
\* =========================================================================
StatusBadRequest == 400
StatusAccepted == 202
StatusOK == 200
StatusInternalServerError == 500

\* http.Error(w, text, code) and WriteJsonResponse(w, code, body)
HttpError(code, text) == [code |-> code, message |-> text, status |-> ""]
JsonResponse(code, message, status) == [code |-> code, message |-> message, status |-> status]

\* what the two handlers differ in: the text of the 202 body
Initiated(action) ==
    IF action = "stop" THEN "Container stop initiated" ELSE "Container restart initiated"

\* how ar.docker.StopContainer / RestartContainer can end: nil, or an error
\* (also that of the 30 s or 45 s deadline of its context)
OperationOutcomes == {"ok", "failed"}

apiFrame == <<monitorVars, storeVars, logVars, loadVars>>

\* the router calls the handler of POST /containers/{id}/stop or /restart
\* with the host parameter of the query
Request(n, actions, hosts) ==
    /\ requests[n].pc = "none"
    /\ \E action \in actions, host \in hosts :
         requests' = [requests EXCEPT ![n] = [NoRequest EXCEPT !.action = action,
                                                               !.host = host,
                                                               !.pc = "handler"]]
    /\ UNCHANGED apiFrame

\* a handler that runs the Docker operation itself and answers with its
\* outcome, as StartContainer and RemoveContainer do
respondAfterOperation(req, outcome) ==
    IF req.host = ""
    THEN [req EXCEPT !.response = <<HttpError(StatusBadRequest, "host parameter is required")>>,
                     !.pc = "returned"]
    ELSE [req EXCEPT !.docker = outcome,
                     !.response = IF outcome = "ok"
                                  THEN <<JsonResponse(StatusOK, "Container stopped", "")>>
                                  ELSE <<HttpError(StatusInternalServerError, "error")>>,
                     !.pc = "returned"]

\* lines 104-116 and 130-142: without a host parameter 400 and return;
\* otherwise the 202 response is written (outcome, the way the Docker
\* operation will end, is not read)
respond(req, outcome) ==
    IF req.host = ""
    THEN [req EXCEPT !.response = <<HttpError(StatusBadRequest, "host parameter is required")>>,
                     !.pc = "returned"]
    ELSE [req EXCEPT !.response = <<JsonResponse(StatusAccepted, Initiated(req.action),
                                                 "pending")>>,
                     !.pc = "go"]

\* StopContainer, lines 103-116
StopContainer(n) ==
    /\ requests[n].pc = "handler"
    /\ requests[n].action = "stop"
    /\ \E outcome \in OperationOutcomes :
         requests' = [requests EXCEPT ![n] = respond(@, outcome)]
    /\ UNCHANGED apiFrame

\* RestartContainer, lines 129-142
RestartContainer(n) ==
    /\ requests[n].pc = "handler"
    /\ requests[n].action = "restart"
    /\ \E outcome \in OperationOutcomes :
         requests' = [requests EXCEPT ![n] = respond(@, outcome)]
    /\ UNCHANGED apiFrame

\* lines 118-126 and 144-152: `go func() {...}()` starts the goroutine of the
\* Docker operation and the handler returns
GoOperation(n) ==
    /\ requests[n].pc = "go"
    /\ requests' = [requests EXCEPT ![n].pc = "returned", ![n].docker = "running"]
    /\ UNCHANGED apiFrame

\* the goroutine: the Docker operation returns, an error is logged
OperationDone(n) ==
    /\ requests[n].docker = "running"
    /\ \E outcome \in OperationOutcomes :
         requests' = [requests EXCEPT ![n].docker = outcome]
    /\ UNCHANGED apiFrame


\* ------------------------------------------------------ the specifications
WebhookURLs == {"https://hooks.example/alerts"}

\* Spec: the whole life of a Monitor (Start, its loop and ticker, Stop) with a
\* fleet of one container that is always running, a fleet query that may
\* fail, and stats that may fail or breach the CPU threshold.
LoopSnapshots == {[h \in {"h1"} |-> <<[ID |-> "c1", State |-> "running"]>>]}
LoopStats == {StatsErr, StatsOk(85, 50)}

Init == \E cfg \in Configs(BOOLEAN, WebhookURLs, {"all"}) : NewMonitor(cfg) /\ RestIdle

LoopStep(i) ==
    \/ InitialCheck(i)
    \/ SelectTick(i)
    \/ SelectStop(i)
    \/ ListStates(i, LoopSnapshots)
    \/ LockStates(i)
    \/ StateStep(i)
    \/ TriggerAdd(i)
    \/ TriggerGo(i)
    \/ UnlockStates(i)
    \/ ListThresholds(i, LoopSnapshots)
    \/ QueryStats(i, LoopStats)
    \/ Return(i)

Next ==
    \/ Start(MaxStarts)
    \/ StopSignal
    \/ StopReturn
    \/ \E i \in Loops : Tick(i, MaxTicks)
    \/ \E i \in Loops : LoopStep(i)

Spec == Init /\ [][Next]_vars

\* SpecLoops: Spec with a caller that calls Start() up to MaxLoops times
NextLoops ==
    \/ Start(MaxLoops)
    \/ StopSignal
    \/ StopReturn
    \/ \E i \in Loops : Tick(i, MaxLoopsTicks)
    \/ \E i \in Loops : LoopStep(i)

SpecLoops == Init /\ [][NextLoops]_vars

\* SpecCycles: the check cycles of a Monitor that is started once and not
\* stopped, over a fleet of one host whose container comes, goes and changes
\* state, with either fleet query of a cycle failing or not.
CycleStates == {"running", "exited"}
CycleSnapshots == SnapshotsOver({"h1"}, CycleStates)
CycleStats == {StatsErr, StatsOk(85, 90)}

InitCycles == \E cfg \in Configs({TRUE}, WebhookURLs, {"all"}) : NewMonitor(cfg) /\ RestIdle

CycleStep ==
    \/ InitialCheck(1)
    \/ SelectTick(1)
    \/ ListStates(1, CycleSnapshots)
    \/ LockStates(1)
    \/ StateStep(1)
    \/ TriggerAdd(1)
    \/ TriggerGo(1)
    \/ UnlockStates(1)
    \/ ListThresholds(1, CycleSnapshots)
    \/ QueryStats(1, CycleStats)
    \/ Return(1)

NextCycles ==
    \/ starts = 0 /\ Start(MaxStarts)
    \/ Tick(1, MaxCycleTicks)
    \/ CycleStep

SpecCycles == InitCycles /\ [][NextCycles]_vars

\* SpecFleet: the check cycles of a Monitor that is started once and not
\* stopped, over a fleet of two hosts with one container each.  Host h1
\* always answers and host h2 answers or fails (and then has no list in the
\* answer); a host that answers lists its container, running or exited.  The
\* stats query of a container fails or reports a CPU value above the threshold.
FleetStates == {"running", "exited"}
FleetSnapshots ==
    {m \in SnapshotsOver(Hosts, FleetStates) :
        /\ "h1" \in DOMAIN m
        /\ \A h \in DOMAIN m : m[h] # <<>>}
FleetStats == {StatsErr, StatsOk(85, DefaultMemoryThreshold)}

InitFleet == \E cfg \in Configs({TRUE}, WebhookURLs, {"all"}) : NewMonitor(cfg) /\ RestIdle

FleetStep ==
    \/ InitialCheck(1)
    \/ SelectTick(1)
    \/ ListStates(1, FleetSnapshots)
    \/ LockStates(1)
    \/ StateStep(1)
    \/ TriggerAdd(1)
    \/ TriggerGo(1)
    \/ UnlockStates(1)
    \/ ListThresholds(1, FleetSnapshots)
    \/ QueryStats(1, FleetStats)
    \/ Return(1)

NextFleet ==
    \/ starts = 0 /\ Start(MaxStarts)
    \/ Tick(1, MaxFleetTicks)
    \/ FleetStep

SpecFleet == InitFleet /\ [][NextFleet]_vars

\* SpecStats: the check cycles of a Monitor that is started once and not
\* stopped, over one container that is always running and whose CPU and
\* memory values are each at or above the threshold.
StatsValues ==
    {StatsErr} \cup {StatsOk(cpu, mem) : cpu \in {DefaultCPUThreshold, 85},
                                        mem \in {DefaultMemoryThreshold, 95}}

InitStats == \E cfg \in Configs({TRUE}, WebhookURLs, {"all"}) : NewMonitor(cfg) /\ RestIdle

StatsLoopStep ==
    \/ InitialCheck(1)
    \/ SelectTick(1)
    \/ ListStates(1, LoopSnapshots)
    \/ LockStates(1)
    \/ StateStep(1)
    \/ TriggerAdd(1)
    \/ TriggerGo(1)
    \/ UnlockStates(1)
    \/ ListThresholds(1, LoopSnapshots)
    \/ QueryStats(1, StatsValues)
    \/ Return(1)

NextStats ==
    \/ starts = 0 /\ Start(MaxStarts)
    \/ Tick(1, MaxStatsTicks)
    \/ StatsLoopStep

SpecStats == InitStats /\ [][NextStats]_vars

\* SpecDispatch: the check cycles of a Monitor that is started once and not
\* stopped, with or without a webhook URL and with the filter "all" or
\* "critical", over one container that is running or exited and whose stats
\* query may fail or breach both thresholds.
DispatchURLs == {""} \cup WebhookURLs
DispatchFilters == {"all", "critical"}
DispatchSnapshots ==
    {m \in SnapshotsOver({"h1"}, CycleStates) : DOMAIN m = {"h1"} /\ m["h1"] # <<>>}
DispatchStats == {StatsErr, StatsOk(85, 95)}

InitDispatch ==
    \E cfg \in Configs({TRUE}, DispatchURLs, DispatchFilters) : NewMonitor(cfg) /\ RestIdle

DispatchStep ==
    \/ InitialCheck(1)
    \/ SelectTick(1)
    \/ ListStates(1, DispatchSnapshots)
    \/ LockStates(1)
    \/ StateStep(1)
    \/ TriggerAdd(1)
    \/ TriggerGo(1)
    \/ UnlockStates(1)
    \/ ListThresholds(1, DispatchSnapshots)
    \/ QueryStats(1, DispatchStats)
    \/ Return(1)

NextDispatch ==
    \/ starts = 0 /\ Start(MaxStarts)
    \/ Tick(1, MaxDispatchTicks)
    \/ DispatchStep

SpecDispatch == InitDispatch /\ [][NextDispatch]_vars

\* SpecWebhooks: a Monitor with a webhook URL that is started once and not
\* stopped, over one container that is always running and, when its stats
\* query succeeds, above the CPU threshold, together with the webhook
\* goroutines triggerAlert starts.  The Go scheduler lets the monitorLoop
\* goroutine take a step whenever it can; a webhook goroutine may end with
\* any outcome or stay in SendWebhook, and the ticker is under no obligation.
WebhookStats == {StatsErr, StatsOk(85, DefaultMemoryThreshold)}

InitWebhooks == \E cfg \in Configs({TRUE}, WebhookURLs, {"all"}) : NewMonitor(cfg) /\ RestIdle

WebhookLoopStep ==
    \/ InitialCheck(1)
    \/ SelectTick(1)
    \/ ListStates(1, LoopSnapshots)
    \/ LockStates(1)
    \/ StateStep(1)
    \/ TriggerAdd(1)
    \/ TriggerGo(1)
    \/ UnlockStates(1)
    \/ ListThresholds(1, LoopSnapshots)
    \/ QueryStats(1, WebhookStats)
    \/ Return(1)

NextWebhooks ==
    \/ starts = 0 /\ Start(MaxStarts)
    \/ Tick(1, MaxWebhookTicks)
    \/ WebhookLoopStep
    \/ \E n \in 1..Len(webhooks) : WebhookDone(n)

SpecWebhooks == InitWebhooks /\ [][NextWebhooks]_vars /\ WF_vars(WebhookLoopStep)

\* SpecLive: a Monitor with alerting enabled that is started once and may be
\* stopped, under the Go scheduler: the monitorLoop goroutine takes a step
\* whenever it can.  The ticker and the caller of Start and Stop are under
\* no obligation.
InitLive == \E cfg \in Configs({TRUE}, WebhookURLs, {"all"}) : NewMonitor(cfg) /\ RestIdle

NextLive ==
    \/ starts = 0 /\ Start(MaxStarts)
    \/ StopSignal
    \/ StopReturn
    \/ Tick(1, MaxLiveTicks)
    \/ LoopStep(1)

SpecLive == InitLive /\ [][NextLive]_vars /\ WF_vars(LoopStep(1))

\* SpecHalt: a Monitor with alerting enabled or not, on which Start is called
\* once or never and Stop once or never, under the Go scheduler: the
\* monitorLoop goroutine and the goroutine inside Stop() take a step whenever
\* they can.
SpecHalt == Init /\ [][NextLive]_vars /\ WF_vars(LoopStep(1)) /\ WF_vars(StopReturn)

\* the Monitor built from parseAlertConfig with an empty environment, for the
\* specifications the Monitor takes no step in
DefaultAlertConfig ==
    [Enabled |-> FALSE, WebhookURL |-> "", AlertsFilter |-> "all",
     CPUThreshold |-> DefaultCPUThreshold, MemoryThreshold |-> DefaultMemoryThreshold]

\* SpecStore: a goroutine calling RecordStats and CleanupContainer and one
\* calling GetAverages, on two ids, in any interleaving of their steps, while
\* the clock moves in seconds.  An id gets at most MaxSamples samples between
\* two clean-ups and the clock stops at MaxClock.
StoreCPU == {0, 50}
StoreDurations == {1}

InitStore == NewMonitor(DefaultAlertConfig) /\ RestIdle

\* p1 is the stats collector, which records and cleans up; p2 serves the
\* averages
Collectors == {"p1"}
Servers == {"p2"}

StoreCall ==
    \/ \E p \in Collectors, id \in EntityIDs, cpu \in StoreCPU :
          /\ Len(recorded[id]) < MaxSamples
          /\ CallRecordStats(p, id, ContainerStats(cpu, 0, clock))
    \/ \E p \in Collectors, id \in EntityIDs : CallCleanupContainer(p, id)
    \/ \E p \in Servers, id \in EntityIDs, d \in StoreDurations :
          CallGetAverages(p, id, d)

NextStore ==
    \/ ClockTick(1, MaxClock)
    \/ StoreCall
    \/ \E p \in Procs : CallStep(p)

SpecStore == InitStore /\ [][NextStore]_vars

\* The sampled series: the collector records one sample of web1 at every
\* minute mark, the sample of minute m having cpu 10 * (m + 1), while the
\* other goroutine asks for the averages of web1 at any moment.  The clock
\* moves past a minute mark only once its sample is appended, and while no
\* result waits to be taken.
SampleAt(t) == ContainerStats(10 * ((t \div 60) + 1), (t \div 60) % 100, t)

SampleTaken ==
    clock % 60 = 0 =>
       /\ recorded["web1"] # <<>>
       /\ Timestamp(recorded["web1"][Len(recorded["web1"])]) = clock

SamplerStep(step, maxMinutes, durations) ==
    \/ /\ SampleTaken
       /\ \A p \in Procs : call[p].pc # "returned"
       /\ ClockTick(step, 60 * maxMinutes)
    \/ ~SampleTaken /\ CallRecordStats("p1", "web1", SampleAt(clock))
    \/ \E d \in durations : CallGetAverages("p2", "web1", d)
    \/ RecordStatsStep("p1")
    \/ GetAveragesStep("p2")

\* SpecSampler: the series sampled up to minute MaxMinutes, past the maxSize
\* of a series, the clock moving by minutes and the averages asked over
\* twelve hours (Get12hAverages).
InitSampler == NewMonitor(DefaultAlertConfig) /\ RestIdle

NextSampler == SamplerStep(60, MaxMinutes, {12 * 60 * 60})

SpecSampler == InitSampler /\ [][NextSampler]_vars

\* SpecWindow: the first MaxWindowMinutes minutes of the series, the clock
\* moving by 30 seconds and the averages asked over five minutes.
InitWindow == NewMonitor(DefaultAlertConfig) /\ RestIdle

NextWindow == SamplerStep(30, MaxWindowMinutes, {5 * 60})

SpecWindow == InitWindow /\ [][NextWindow]_vars


\* SpecLog: alerts are triggered one after the other, past the capacity of
\* the AlertHistory, their types taking turns; up to MaxLogAcks acknowledge
\* calls are made in between, for an id that is never issued (0), for the
\* first two ids, or for all entries.
LogTypes == <<AlertContainerStopped, AlertContainerStarted, AlertCPUThreshold,
              AlertMemoryThreshold>>
LogType(id) == LogTypes[((id - 1) % 4) + 1]

InitLog == \E cfg \in Configs({TRUE}, {""}, {"all"}) : NewMonitor(cfg) /\ RestIdle

NextLog ==
    \/ TriggerAlert(MaxAlerts, {LogType(nextId + 1)})
    \/ AcknowledgeAlert(MaxLogAcks, 0..2)
    \/ AcknowledgeAllAlerts(MaxLogAcks)

SpecLog == InitLog /\ [][NextLog]_vars

\* SpecAcks: up to MaxAckAlerts alerts of any type are triggered and up to
\* MaxAcks acknowledge calls made, for the ids 0..MaxAckAlerts or for all
\* entries, in any order.
InitAcks == \E cfg \in Configs({TRUE}, {""}, {"all"}) : NewMonitor(cfg) /\ RestIdle

NextAcks ==
    \/ TriggerAlert(MaxAckAlerts, LifecycleTypes \cup ThresholdTypes)
    \/ AcknowledgeAlert(MaxAcks, 0..MaxAckAlerts)
    \/ AcknowledgeAllAlerts(MaxAcks)

SpecAcks == InitAcks /\ [][NextAcks]_vars


\* SpecLoad: one start of the program.  The thresholds and the interval are
\* unset, in range, out of range or not parsable, written with or without
\* an exponent, in decimal or hexadecimal, as an infinity or a NaN, next to
\* the border 100 and beyond the range of a float64 or of a Duration, the
\* interval with a fraction and with the units below a second, and with a
\* fraction of more digits than a float64 scale can count; the filter is
\* unset, a documented mode or another word.
LoadThresholds ==
    {<<>>, <<"5", "0">>, <<"1", "0", "0">>, <<"0", ".", "5">>,
     <<"1", "0", "0", ".", "5">>, <<"1", "0", "1">>, <<"0">>, <<"-", "5">>,
     <<"a", "b", "c">>, <<"1", "e", "2">>, <<"1", "E", "2">>, <<"5", "e", "-", "1">>,
     <<"i", "n", "f">>, <<"+", "I", "n", "f">>, <<"N", "a", "N">>,
     <<"0", "x", "1", ".", "9", "p", "6">>, <<"1", "_", "0">>,
     <<"1", "0", "0", ".", "0", "0", "0", "0", "0", "0", "0", "0", "0", "0", "0", "0", "0", "0", "1">>,
     <<"1", "0", "0", ".", "0", "0", "0", "0", "0", "0", "0", "0", "0", "0", "0", "0", "0", "1">>,
     <<"1", "e", "-", "4", "0", "0">>, <<"1", "e", "4", "0", "0">>}
LoadMemoryThresholds ==
    {<<>>, <<"9", "5">>, <<"2", "0", "0">>, <<"9", ".", "5", "e", "1">>}
LoadIntervals ==
    {<<>>, <<"9", "0", "s">>, <<"1", "h">>, <<"1", "m", "3", "0", "s">>, <<"0">>,
     <<"-", "5", "s">>, <<"3", "0">>, <<"a", "b", "c">>, <<"1", ".", "5", "h">>,
     <<"5", "0", "0", "m", "s">>, <<".", "5", "s">>, <<"1", "0", "0", "u", "s">>,
     <<"1", "n", "s">>, <<"0", ".", "4", "n", "s">>,
     <<"9", "2", "2", "3", "3", "7", "2", "0", "3", "6", "8", "5", "4", "7", "7", "5", "8", "0", "8", "n", "s">>,
     <<"2", "5", "6", "2", "0", "4", "8", "h">>}
\* intervals whose fraction has 311 and 309 digits, the last one a 1: 1s and
\* a part of a second that is taken as 0, and no hour
Zeros(n) == [i \in 1..n |-> "0"]
LongIntervals ==
    {<<"1", ".">> \o Zeros(310) \o <<"1", "s">>, <<"0", ".">> \o Zeros(308) \o <<"1", "h">>}
\* ALERTS_FILTER unset, one of the two documented modes, or another word
LoadFilters == {"", "all", "critical", "warning"}
\* the numbers vary with the flag, the URL and the filter unset, the long
\* intervals come with the thresholds unset, and the flag, the URL and the
\* filter vary with the numbers unset
LoadEnvironments ==
    {Environment("true", "", "", cpu, mem, interval) :
        cpu \in LoadThresholds, mem \in LoadMemoryThresholds, interval \in LoadIntervals}
    \cup
    {Environment("true", "", "", <<>>, <<>>, interval) : interval \in LongIntervals}
    \cup
    {Environment(enabled, url, filter, <<>>, <<>>, <<>>) :
        enabled \in {"true", ""}, url \in {""} \cup WebhookURLs, filter \in LoadFilters}

InitLoad ==
    /\ NewMonitor(DefaultAlertConfig)
    /\ NewHistoryManager
    /\ ackRet = NoAck
    /\ \E e \in LoadEnvironments : env = [r \in Runs |-> IF r = 1 THEN <<e>> ELSE <<>>]
    /\ loaded = [r \in Runs |-> <<>>]
    /\ view = [r \in Runs |-> <<>>]
    /\ requests = [n \in Requests |-> NoRequest]

NextLoad == \E r \in Runs : NewConfig(r) \/ NewRouter(r)

SpecLoad == InitLoad /\ [][NextLoad]_vars

\* SpecViews: two starts of the program side by side, each with its own
\* environment.
ViewURLs == {"", "https://hooks.example/alerts", "https://hooks.example/other"}
\* the threshold and the interval are both unset or both set
ViewNumbers == {<<<<>>, <<>>>>, <<<<"5", "0">>, <<"1", ".", "5", "h">>>>}
ViewEnvironments ==
    {Environment(enabled, url, "", numbers[1], <<>>, numbers[2]) :
        enabled \in {"true", ""}, url \in ViewURLs, numbers \in ViewNumbers}

InitViews ==
    /\ NewMonitor(DefaultAlertConfig)
    /\ NewHistoryManager
    /\ ackRet = NoAck
    /\ \E e1 \in ViewEnvironments, e2 \in ViewEnvironments :
          env = [r \in Runs |-> IF r = 1 THEN <<e1>> ELSE <<e2>>]
    /\ loaded = [r \in Runs |-> <<>>]
    /\ view = [r \in Runs |-> <<>>]
    /\ requests = [n \in Requests |-> NoRequest]

NextViews == \E r \in Runs : NewConfig(r) \/ NewRouter(r)

SpecViews == InitViews /\ [][NextViews]_vars


\* SpecOps: up to MaxRequests stop and restart requests, with or without a
\* host parameter, their handlers and goroutines running side by side, each
\* Docker operation ending well or not.
OpActions == {"stop", "restart"}
OpHosts == {"", "h1"}

InitOps == NewMonitor(DefaultAlertConfig) /\ RestIdle

NextOps ==
    \E n \in Requests :
        \/ Request(n, OpActions, OpHosts)
        \/ StopContainer(n)
        \/ RestartContainer(n)
        \/ GoOperation(n)
        \/ OperationDone(n)

SpecOps == InitOps /\ [][NextOps]_vars

\* SpecPairs: the check cycles of a Monitor that is started once and not
\* stopped, over one container that every snapshot lists, in any of the
\* states Docker reports; its stats stay below the thresholds.
PairStates == {"created", "running", "paused", "restarting", "removing", "exited", "dead"}
PairSnapshots == {[h \in {"h1"} |-> <<[ID |-> "c1", State |-> s]>>] : s \in PairStates}
PairStats == {StatsOk(10, 10)}

InitPairs == \E cfg \in Configs({TRUE}, WebhookURLs, {"all"}) : NewMonitor(cfg) /\ RestIdle

PairStep ==
    \/ InitialCheck(1)
    \/ SelectTick(1)
    \/ ListStates(1, PairSnapshots)
    \/ LockStates(1)
    \/ StateStep(1)
    \/ TriggerAdd(1)
    \/ TriggerGo(1)
    \/ UnlockStates(1)
    \/ ListThresholds(1, PairSnapshots)
    \/ QueryStats(1, PairStats)
    \/ Return(1)

NextPairs ==
    \/ starts = 0 /\ Start(MaxStarts)
    \/ Tick(1, MaxPairTicks)
    \/ PairStep

SpecPairs == InitPairs /\ [][NextPairs]_vars

\* SpecSkew: the samples of web1 arrive with timestamps in any order (the
\* collector stamps them, not the HistoryManager), the n-th with cpu 10 * n
\* and memory 5 * n, while the other goroutine asks for the averages of the
\* last second.
SkewSample(n, ts) == ContainerStats(10 * n, 5 * n, ts)

InitSkew == NewMonitor(DefaultAlertConfig) /\ RestIdle

NextSkew ==
    \/ ClockTick(1, MaxSkewClock)
    \/ \E ts \in 0..MaxSkewClock :
          /\ Len(recorded["web1"]) < MaxSkewSamples
          /\ CallRecordStats("p1", "web1", SkewSample(Len(recorded["web1"]) + 1, ts))
    \/ CallGetAverages("p2", "web1", 1)
    \/ RecordStatsStep("p1")
    \/ GetAveragesStep("p2")

SpecSkew == InitSkew /\ [][NextSkew]_vars

\* SpecOutage: the check cycles of a Monitor that is started once and not
\* stopped, over a fleet of two hosts.  Host h1 always answers, with its
\* container running; host h2 answers, with its container running or exited,
\* or fails and is missing from the answer.  The stats stay below the
\* thresholds.
OutageSnapshots ==
    {m \in SnapshotsOver(Hosts, FleetStates) :
        /\ "h1" \in DOMAIN m
        /\ m["h1"] = <<[ID |-> "c1", State |-> "running"]>>
        /\ \A h \in DOMAIN m : m[h] # <<>>}

InitOutage == \E cfg \in Configs({TRUE}, WebhookURLs, {"all"}) : NewMonitor(cfg) /\ RestIdle

OutageStep ==
    \/ InitialCheck(1)
    \/ SelectTick(1)
    \/ ListStates(1, OutageSnapshots)
    \/ LockStates(1)
    \/ StateStep(1)
    \/ TriggerAdd(1)
    \/ TriggerGo(1)
    \/ UnlockStates(1)
    \/ ListThresholds(1, OutageSnapshots)
    \/ QueryStats(1, PairStats)
    \/ Return(1)

NextOutage ==
    \/ starts = 0 /\ Start(MaxStarts)
    \/ Tick(1, MaxOutageTicks)
    \/ OutageStep

SpecOutage == InitOutage /\ [][NextOutage]_vars

\* SpecLocks: two goroutines, each calling any of RecordStats, GetAverages
\* and CleanupContainer on any of the two ids, again and again, in any
\* interleaving of their steps.  The Go scheduler runs every goroutine that
\* can run, and sync.RWMutex lets no waiter starve (a waiting Lock holds back
\* later RLock calls, and Unlock hands over to the readers that wait), so a
\* goroutine whose next step is possible again and again takes it.
InitLocks == NewMonitor(DefaultAlertConfig) /\ RestIdle

LockCall(p) ==
    \/ \E id \in EntityIDs :
          /\ Len(recorded[id]) < MaxLockSamples
          /\ CallRecordStats(p, id, ContainerStats(50, 40, 0))
    \/ \E id \in EntityIDs : CallCleanupContainer(p, id)
    \/ \E id \in EntityIDs : CallGetAverages(p, id, 1)

NextLocks == \E p \in Procs : LockCall(p) \/ CallStep(p)

SpecLocks == InitLocks /\ [][NextLocks]_vars /\ \A p \in Procs : SF_vars(CallStep(p))

\* ------------------------------------------------------------------ claims
\* the loops whose current cycle has processed a containersMap
Processed == {i \in Loops : cyc[i].seen # NoSnap}

\* C1: in the cycle where a key has no tracked-state entry (its first
\* sighting) no lifecycle alert is emitted for it, whatever state it is
\* reported in; its state is recorded.
C1_FirstSightingSilent ==
    \A i \in Processed :
        \A k \in SnapshotKeys(cyc[i].seen[1]) \ DOMAIN cyc[i].before[1] :
            /\ LifecycleFor(cyc[i].alerts, k) = <<>>
            /\ k \in DOMAIN containerStates
            /\ containerStates[k] = ReportedState(cyc[i].seen[1], k)

\* a first sighting of a container in a stopped state
C1_Witness ==
    \E i \in Processed :
        \E k \in SnapshotKeys(cyc[i].seen[1]) \ DOMAIN cyc[i].before[1] :
            ReportedState(cyc[i].seen[1], k) = "exited"

\* the last three observations of k are running, exited, running
RunExitRun(k) ==
    /\ Len(obs[k]) = 3
    /\ obs[k][1].state = "running"
    /\ obs[k][2].state = "exited"
    /\ obs[k][3].state = "running"

\* C2 as claimed: an entity reported running, exited, running in three
\* consecutive successfully fetched snapshots gets no alert in the first of
\* these cycles, one container-stopped alert in the second and one
\* container-started alert in the third.
C2_Original ==
    \A k \in AllKeys :
        RunExitRun(k) =>
            /\ obs[k][1].alerts = <<>>
            /\ obs[k][2].alerts = <<AlertContainerStopped>>
            /\ obs[k][3].alerts = <<AlertContainerStarted>>

\* C2 amended: an entity reported running, exited, running in three
\* consecutive successfully fetched snapshots gets exactly one
\* container-stopped alert in the second cycle and exactly one
\* container-started alert in the third; in the first it gets none if that is
\* its first sighting, and otherwise none or one container-started alert.
C2_StoppedThenStarted ==
    \A k \in AllKeys :
        RunExitRun(k) =>
            /\ obs[k][1].alerts \in {<<>>, <<AlertContainerStarted>>}
            /\ obs[k][1].first => obs[k][1].alerts = <<>>
            /\ obs[k][2].alerts = <<AlertContainerStopped>>
            /\ obs[k][3].alerts = <<AlertContainerStarted>>

\* running, exited, running from the first sighting on
C2_Witness == \E k \in AllKeys : RunExitRun(k) /\ obs[k][1].first

\* C3 as claimed: a tracked entity missing from a successfully fetched
\* snapshot causes no lifecycle alert in that cycle and its entry is deleted;
\* when its key is listed again it is a first sighting and no alert of any
\* type fires for it in that cycle, whatever its state.
C3_Original ==
    \A i \in Processed :
        /\ \A k \in DOMAIN cyc[i].before[1] \ SnapshotKeys(cyc[i].seen[1]) :
              /\ LifecycleFor(cyc[i].alerts, k) = <<>>
              /\ k \in gone
        /\ \A k \in cyc[i].goneBefore \cap SnapshotKeys(cyc[i].seen[1]) :
              /\ TypesFor(cyc[i].alerts, k) = <<>>
              /\ k \notin DOMAIN cyc[i].before[1]

\* C3 amended: a tracked entity missing from a successfully fetched snapshot
\* causes no lifecycle alert in that cycle and its entry is deleted (and stays
\* deleted while it is not listed); when its key is listed again it is a first
\* sighting: no lifecycle alert, whatever its state, and the state is
\* recorded.  checkResourceThresholds of the same cycle may still raise
\* threshold alerts for it.
\* (A deleted key is tracked again only from the moment a checkContainerStates
\* holding the lock goes through a containersMap that lists it.)
C3_GoneThenNew ==
    /\ \A k \in gone :
          k \in DOMAIN containerStates =>
             \E i \in Loops : /\ pc[i] \in HoldsStatesMu
                              /\ k \in SnapshotKeys(locals[i].containersMap[1])
    /\ \A i \in Processed :
          /\ \A k \in DOMAIN cyc[i].before[1] \ SnapshotKeys(cyc[i].seen[1]) :
                /\ LifecycleFor(cyc[i].alerts, k) = <<>>
                /\ k \in gone
          /\ \A k \in cyc[i].goneBefore \cap SnapshotKeys(cyc[i].seen[1]) :
                /\ LifecycleFor(cyc[i].alerts, k) = <<>>
                /\ k \notin DOMAIN cyc[i].before[1]
                /\ containerStates[k] = ReportedState(cyc[i].seen[1], k)

\* a key that was tracked, then deleted, is listed again as running, and the
\* cycle has raised a CPU threshold alert for it
C3_Witness ==
    \E i \in Processed :
        \E k \in cyc[i].goneBefore \cap SnapshotKeys(cyc[i].seen[1]) :
            /\ ReportedState(cyc[i].seen[1], k) = "running"
            /\ \E n \in 1..Len(cyc[i].alerts) :
                  /\ Key(cyc[i].alerts[n].Host, cyc[i].alerts[n].ContainerID) = k
                  /\ cyc[i].alerts[n].Type = AlertCPUThreshold

\* C4 as claimed: at most one checkAll cycle of a Monitor is executing at any
\* time, for every sequence of Start(), Stop() and timer ticks.
C4_Original == Cardinality({i \in Loops : pc[i] \in InCycle}) <= 1

\* C5: when Stop() has returned, every monitorLoop has exited, no check cycle
\* is executing, every cycle that was begun (also one in flight when Stop()
\* was called) has run to completion, and no check cycle starts afterwards.
C5_StopWaits ==
    /\ [](stopPc = "returned" =>
             \A i \in Loops : /\ pc[i] \in {"idle", "done"}
                              /\ cyclesDone[i] = cyclesStarted[i])
    /\ [][stopPc = "returned" =>
             /\ cyclesStarted' = cyclesStarted
             /\ \A i \in Loops : pc'[i] \notin InCycle]_vars

\* Stop() has returned on a Monitor that had a cycle in flight when it signalled
C5_Witness == stopPc = "returned" /\ atStop.inFlight # {}

\* C6 as claimed, for a tick that is already due when Stop() closes stopCh:
\* the pending timer is cancelled at once, so no loop receives that tick and
\* begins a check cycle after the signal.
C6_Original == [][\A i \in atStop.due : ticksConsumed'[i] = ticksConsumed[i]]_vars

\* C7: with AlertConfig.Enabled false no monitorLoop is ever launched and no
\* check cycle runs: the tracked-state map and the AlertLog stay empty and no
\* webhook delivery is started.
C7_DisabledStaysStopped ==
    ~config.Enabled =>
        /\ \A i \in Loops : pc[i] = "idle" /\ cyclesStarted[i] = 0
        /\ wg = 0
        /\ containerStates = <<>>
        /\ history = <<>>
        /\ webhooks = <<>>
        /\ nextId = 0

\* Start() was called on a disabled Monitor and Stop() returned
C7_Witness == ~config.Enabled /\ starts >= 1 /\ stopPc = "returned"

\* C8: the first check cycle of a launched loop begins at once, before its
\* ticker exists and with no tick consumed; every later cycle begins by
\* receiving a tick from the ticker.
C8_FirstAtOnceThenTicks ==
    /\ [](\A i \in Loops :
             /\ cyclesStarted[i] = (IF pc[i] \in {"idle", "initial"} THEN 0
                                    ELSE 1 + ticksConsumed[i])
             /\ ticksConsumed[i] <= ticksFired[i]
             /\ ticker[i] = "none" => ticksConsumed[i] = 0 /\ ~tickPending[i])
    /\ [][\A i \in Loops :
             /\ pc[i] = "initial" /\ pc'[i] # "initial" => pc'[i] = "list"
             /\ pc[i] \notin InCycle /\ pc'[i] \in InCycle =>
                   \/ pc[i] = "initial" /\ ticker[i] = "none" /\ pc'[i] = "list"
                   \/ /\ pc[i] = "select" /\ pc'[i] = "list"
                      /\ tickPending[i] /\ ~tickPending'[i]
                      /\ ticker[i] = "running"]_vars

\* a loop is in its second cycle, the one begun by a tick
C8_Witness == \E i \in Loops : pc[i] = "list" /\ ticksConsumed[i] = 1 /\ cyclesStarted[i] = 2

\* the cycles that have ended: the cycle of loop i is about to return
Ended == {i \in Loops : pc[i] = "return"}

\* C9 as claimed: a check cycle with a failed fleet query emits no alert,
\* lifecycle or threshold, and leaves the tracked-state map as it was when
\* the cycle began.
C9_Original ==
    \A i \in Ended :
        cyc[i].q1 = "err" \/ cyc[i].q2 = "err" =>
            /\ cyc[i].alerts = <<>>
            /\ containerStates = cyc[i].start[1]

\* C10: failures of fleet or stats queries never stop the loop: while
\* stopCh is open, a tick buffered for a loop leads to a further check cycle
\* of that loop, whatever failed before.
C10_TickLeadsToCycle ==
    \A i \in Loops :
        tickPending[i] ~> ((~tickPending[i] /\ pc[i] = "list") \/ stopCh = "closed")

\* a loop whose earlier fleet queries all failed (its container is listed by
\* every answer, and nothing is tracked yet) is in a cycle begun by a tick
C10_Witness ==
    \E i \in Loops : /\ pc[i] = "list" /\ ticksConsumed[i] >= 1 /\ stopCh = "open"
                     /\ cyclesDone[i] >= 1 /\ containerStates = <<>>

\* the loops whose current cycle has gone through a containersMap in
\* checkResourceThresholds and is about to return
Evaluated == {i \in Loops : pc[i] = "return" /\ cyc[i].q2 = "ok"}

\* the lifecycle alerts due for a container reported in state now whose key
\* is tracked (exists) with state prev
LifecycleDue(exists, prev, now) ==
    IF exists /\ prev # now /\ now \in {"exited", "dead"} THEN <<AlertContainerStopped>>
    ELSE IF exists /\ now = "running" /\ prev \in {"exited", "dead", "created"}
         THEN <<AlertContainerStarted>>
         ELSE <<>>

\* whether stats breach a threshold of the configuration
Breach(stats) ==
    \/ stats.CPUPercent > config.CPUThreshold
    \/ stats.MemoryPercent > config.MemoryThreshold

\* C11: when a fleet answer has lists for some hosts and an error for
\* another, every entity of the hosts that answered goes through lifecycle
\* detection (its transition raises its alert and its state is recorded) and
\* every running one through threshold evaluation, in that cycle, as it would
\* without the failing host.
C11_HostFailureIsolated ==
    /\ \A i \in Processed :
          hostErrors(cyc[i].seen[1]) # {} =>
             \A k \in SnapshotKeys(cyc[i].seen[1]) :
                LET exists == k \in DOMAIN cyc[i].before[1]
                    prev == IF exists THEN cyc[i].before[1][k] ELSE ""
                    now == ReportedState(cyc[i].seen[1], k)
                IN /\ LifecycleFor(cyc[i].alerts, k) = LifecycleDue(exists, prev, now)
                   /\ k \in DOMAIN containerStates
                   /\ containerStates[k] = now
    /\ \A i \in Evaluated :
          hostErrors(cyc[i].tseen[1]) # {} =>
             /\ cyc[i].queried = RunningKeys(cyc[i].tseen[1])
             /\ \A k \in cyc[i].queried :
                   ~cyc[i].tstats[k].Err =>
                      (ThresholdAlertsFor(cyc[i].alerts, k) # <<>> <=> Breach(cyc[i].tstats[k]))

\* host h2 failed in both fleet queries of a cycle, and the container of h1
\* got a container-stopped and, running again in the second answer, a
\* threshold alert
C11_Witness ==
    \E i \in Evaluated :
        /\ cyc[i].before # NoSnap
        /\ hostErrors(cyc[i].seen[1]) = {"h2"}
        /\ hostErrors(cyc[i].tseen[1]) = {"h2"}
        /\ LifecycleFor(cyc[i].alerts, Key("h1", "c1")) = <<AlertContainerStopped>>
        /\ ThresholdAlertsFor(cyc[i].alerts, Key("h1", "c1")) # <<>>

\* C12: when the stats query fails for a running entity, that entity gets no
\* threshold alert in the cycle, and every other running entity of the
\* snapshot still has its stats queried and, on a breach, its alert.
C12_StatsFailureSkipsOne ==
    \A i \in Evaluated :
        (\E k \in cyc[i].queried : cyc[i].tstats[k].Err) =>
            /\ RunningKeys(cyc[i].tseen[1]) \subseteq cyc[i].queried
            /\ \A k \in cyc[i].queried :
                  IF cyc[i].tstats[k].Err
                  THEN ThresholdAlertsFor(cyc[i].alerts, k) = <<>>
                  ELSE Breach(cyc[i].tstats[k]) =>
                          ThresholdAlertsFor(cyc[i].alerts, k) # <<>>

\* two running entities: the stats query failed for one, and the other got
\* its CPU-threshold alert
C12_Witness ==
    \E i \in Evaluated :
        \E k1, k2 \in cyc[i].queried :
            /\ cyc[i].tstats[k1].Err
            /\ ~cyc[i].tstats[k2].Err
            /\ Len(ThresholdAlertsFor(cyc[i].alerts, k2)) = 1

\* the CPU-threshold alerts of a sequence that are about key k
CPUAlertsFor(alerts, k) ==
    SelectSeq(alerts, LAMBDA a : Key(a.Host, a.ContainerID) = k /\ a.Type = AlertCPUThreshold)

\* the ids of the alerts of a sequence
IDs(alerts) == {alerts[n].ID : n \in 1..Len(alerts)}

\* C13: threshold alerts are not deduplicated: every cycle in which the CPU
\* value of a running entity exceeds the threshold adds exactly one
\* CPU-threshold alert for it to the AlertLog, whatever the log already holds,
\* with an id no earlier alert has and with that cycle's value and the
\* threshold; so n consecutive such cycles add n alerts with distinct ids.
\* (The cycle's alert is in the log when the cycle is about to return, and
\* every m.history.Add of the phase appends one alert with an unused id.)
C13_NoDeduplication ==
    /\ [](\A i \in Evaluated :
             \A k \in cyc[i].queried :
                LET stats == cyc[i].tstats[k]
                    cpu == CPUAlertsFor(cyc[i].alerts, k)
                IN ~stats.Err /\ stats.CPUPercent > config.CPUThreshold =>
                      /\ Len(cpu) = 1
                      /\ cpu[1].Value = stats.CPUPercent
                      /\ cpu[1].Threshold = config.CPUThreshold
                      /\ \E n \in 1..Len(history) : history[n] = cpu[1])
    /\ [][\A i \in Loops :
             pc[i] = "stats.add" /\ pc'[i] = "stats.go" =>
                /\ Len(history') = Len(history) + 1
                /\ SubSeq(history', 1, Len(history)) = history
                /\ history'[Len(history')].ID \notin IDs(history)
                /\ history'[Len(history')] = cyc'[i].alerts[Len(cyc'[i].alerts)]]_vars

\* the first two cycles both measured CPU 85 against the threshold 80, and
\* the AlertLog holds two CPU-threshold alerts with value 85, threshold 80
\* and different ids
C13_Witness ==
    /\ pc[1] = "return" /\ cyclesStarted[1] = 2
    /\ LET cpu == CPUAlertsFor(history, Key("h1", "c1"))
       IN /\ Len(cpu) = 2
          /\ cpu[1].ID # cpu[2].ID
          /\ \A n \in 1..2 : cpu[n].Value = 85 /\ cpu[n].Threshold = 80

\* the threshold alerts of the kind type among those about key k
OfType(alerts, k, type) ==
    SelectSeq(ThresholdAlertsFor(alerts, k), LAMBDA a : a.Type = type)

\* C14: for a running entity whose stats query succeeds, the cycle emits one
\* CPU-threshold alert if cpuPercent > CPUThreshold and none otherwise, and
\* one memory-threshold alert if memoryPercent > MemoryThreshold and none
\* otherwise, each carrying the measured value and the threshold; a value
\* equal to its threshold fires nothing.
C14_StrictlyGreater ==
    \A i \in Evaluated :
        \A k \in cyc[i].queried :
            LET stats == cyc[i].tstats[k]
                cpu == OfType(cyc[i].alerts, k, AlertCPUThreshold)
                mem == OfType(cyc[i].alerts, k, AlertMemoryThreshold)
            IN ~stats.Err =>
                 /\ Len(cpu) = (IF stats.CPUPercent > config.CPUThreshold THEN 1 ELSE 0)
                 /\ Len(mem) = (IF stats.MemoryPercent > config.MemoryThreshold THEN 1 ELSE 0)
                 /\ \A n \in 1..Len(cpu) : /\ cpu[n].Value = stats.CPUPercent
                                            /\ cpu[n].Threshold = config.CPUThreshold
                 /\ \A n \in 1..Len(mem) : /\ mem[n].Value = stats.MemoryPercent
                                            /\ mem[n].Threshold = config.MemoryThreshold

\* an entity with its CPU value above and its memory value at the threshold
\* got the CPU-threshold alert alone, after a cycle in which both values were
\* above and both alerts were emitted
C14_Witness ==
    \E i \in Evaluated :
        \E k \in cyc[i].queried :
            /\ cyc[i].tstats[k] = StatsOk(85, config.MemoryThreshold)
            /\ Len(ThresholdAlertsFor(cyc[i].alerts, k)) = 1
            /\ Len(history) = 3
            /\ history[1].Type = AlertCPUThreshold
            /\ history[2].Type = AlertMemoryThreshold

\* C15: an entity that the snapshot of threshold evaluation lists in a state
\* other than running has no stats query issued and gets no threshold alert;
\* the running entities of the snapshot are still queried.
C15_NonRunningSkipped ==
    \A i \in Evaluated :
        /\ \A k \in SnapshotKeys(cyc[i].tseen[1]) \ RunningKeys(cyc[i].tseen[1]) :
              /\ k \notin cyc[i].queried
              /\ ThresholdAlertsFor(cyc[i].alerts, k) = <<>>
        /\ RunningKeys(cyc[i].tseen[1]) \subseteq cyc[i].queried

\* a snapshot with an exited entity and a running one that got an alert
C15_Witness ==
    \E i \in Evaluated :
        /\ SnapshotKeys(cyc[i].tseen[1]) \ RunningKeys(cyc[i].tseen[1]) # {}
        /\ \E k \in cyc[i].queried : ThresholdAlertsFor(cyc[i].alerts, k) # <<>>

\* the alerts of a sequence that are container-stopped alerts
StoppedAlerts(alerts) == SelectSeq(alerts, LAMBDA a : a.Type = AlertContainerStopped)

\* the alerts of the AlertLog whose triggerAlert has gone past its webhook
\* test (line 554): all but those a loop has just added
Handled ==
    SelectSeq(history, LAMBDA a : \A i \in Loops :
                ~(pc[i] \in {"states.go", "stats.go"} /\ locals[i].alert[1].ID = a.ID))

\* every alert triggered so far is in the AlertLog, in the order triggered
AllLogged == Len(history) = nextId /\ \A n \in 1..Len(history) : history[n].ID = n

\* C16: with a webhook URL and the filter "critical", the alerts handed to
\* webhook dispatch are the container-stopped alerts and no others, and every
\* alert of every kind is in the AlertLog.
C16_CriticalOnlyStopped ==
    config.WebhookURL # "" /\ config.AlertsFilter = "critical" =>
        /\ webhooks = StoppedAlerts(Handled)
        /\ AllLogged

\* under the filter "critical" the AlertLog holds alerts of all four kinds
\* and a webhook delivery was started
C16_Witness ==
    /\ config.WebhookURL # "" /\ config.AlertsFilter = "critical"
    /\ {history[n].Type : n \in 1..Len(history)} = LifecycleTypes \cup ThresholdTypes
    /\ webhooks # <<>>

\* C17 as claimed: with ALERTS_FILTER=critical the alerts delivered to the
\* webhook are the CPU and memory threshold alerts, and container-stopped
\* alerts are not delivered.
C17_Original ==
    config.WebhookURL # "" /\ config.AlertsFilter = "critical" =>
        webhooks = SelectSeq(Handled, LAMBDA a : a.Type \in ThresholdTypes)

\* C18: with an empty webhook URL no webhook delivery is ever started, for
\* any alert kind and filter mode, and every alert is in the AlertLog.
C18_NoURLNoDelivery ==
    config.WebhookURL = "" => webhooks = <<>> /\ AllLogged

\* with an empty webhook URL and the filter "all", a container-stopped alert
\* and a threshold alert are in the AlertLog
C18_Witness ==
    /\ config.WebhookURL = "" /\ config.AlertsFilter = "all"
    /\ \E m, n \in 1..Len(history) : /\ history[m].Type = AlertContainerStopped
                                      /\ history[n].Type = AlertCPUThreshold

\* C19: triggerAlert does not wait for the webhook delivery it starts: a
\* check cycle in progress completes, and a buffered tick leads to the next
\* cycle, whether or not any delivery started so far ever ends.
C19_CyclesNeverWaitForWebhooks ==
    \A i \in Loops :
        /\ pc[i] \in InCycle ~> pc[i] = "select"
        /\ tickPending[i] ~> (~tickPending[i] /\ pc[i] = "list")

\* a cycle begun by a tick is under way while the delivery started in the
\* cycle before it has not ended
C19_Witness ==
    \E i \in Loops :
        /\ pc[i] = "list" /\ ticksConsumed[i] >= 1
        /\ webhooks # <<>> /\ outcomes = <<>>

\* C20: the webhook goroutines cannot affect monitoring: the end of a
\* delivery, whatever its outcome, changes neither the tracked-state map nor
\* the AlertLog nor anything else of the Monitor and its loop, and starts no
\* further delivery; an alert is handed to delivery at most once.
C20_DeliveriesIsolated ==
    /\ [](\A m, n \in 1..Len(webhooks) : m # n => webhooks[m].ID # webhooks[n].ID)
    /\ [][outcomes' # outcomes =>
             UNCHANGED <<config, restVars, starts, stopPc, stopCh, wg, pc, ticker, tickPending,
                         ticksFired, locals, containerStates, history, webhooks,
                         nextId>>]_vars

\* two deliveries have ended, one failed and one timed out, and the loop has
\* begun a further cycle
C20_Witness ==
    /\ {outcomes[n] : n \in DOMAIN outcomes} = {"failed", "timeout"}
    /\ pc[1] = "list" /\ ticksConsumed[1] >= 1

\* ------------------------------------------------------------------- C21
\* C21: whenever no writer holds the lock of a series, the series has at
\* most 720 data points, so no GetAverages scan sees more than that; a
\* series is longer only inside RecordStats, between its append and its cut.
C21_AtMostMaxSize ==
    /\ \A id \in DOMAIN containers :
          containers[id].mu.w = "" => Len(containers[id].dataPoints) <= 720
    /\ \A p \in Procs :
          At(p, "GetAverages", "scan") =>
             Len(containers[call[p].id].dataPoints) <= 720

\* more than 720 samples were recorded, the series is unlocked and full
C21_Witness ==
    /\ Len(recorded["web1"]) > 720
    /\ "web1" \in DOMAIN containers
    /\ containers["web1"].mu = RWFree
    /\ Len(containers["web1"].dataPoints) = 720

\* ------------------------------------------------------------------- C22
\* the last n elements of a sequence, all of it when it is shorter
LastN(q, n) == IF Len(q) <= n THEN q ELSE SubSeq(q, Len(q) - n + 1, Len(q))

\* goroutine p takes the step of GetAverages that scans the series
Scans(p) == At(p, "GetAverages", "scan") /\ call'[p].pc = "returned"

\* C22: once more than maxSize samples of an id are recorded, its series is
\* the last maxSize of them in the order they were recorded, and GetAverages
\* over a window that reaches back to the oldest of them returns their mean.
C22_LastMaxSizeKept ==
    /\ [](\A id \in DOMAIN containers :
            containers[id].mu.w = "" =>
               containers[id].dataPoints = LastN(recorded[id], MaxSize))
    /\ [][\A p \in Procs :
            Scans(p) =>
               LET id == call[p].id
                   kept == LastN(recorded[id], MaxSize)
                   cutoff == clock - call[p].duration
                   s == sums(kept, 1, Len(kept))
               IN (/\ Len(recorded[id]) > MaxSize
                   /\ \A n \in 1..Len(kept) : Timestamp(kept[n]) >= cutoff)
                  => call'[p].ret[1] = [cpuAvg |-> Quot(s.cpuSum, MaxSize),
                                        memAvg |-> Quot(s.memSum, MaxSize),
                                        hasData |-> TRUE]]_vars

\* averages over a full series were returned after samples had been dropped
C22_Witness ==
    /\ At("p2", "GetAverages", "returned")
    /\ Len(recorded["web1"]) > MaxSize + 1
    /\ call["p2"].ret[1].hasData
    /\ call["p2"].ret[1].cpuAvg.Den = MaxSize

\* ------------------------------------------------------------------- C23
\* goroutine p takes the step of GetAverages that fixes its result
Returns(p) ==
    /\ call[p].op = "GetAverages"
    /\ call[p].pc # "returned"
    /\ call'[p].pc = "returned"

\* the series GetAverages finds for an id, empty for an unknown id
SeriesOf(id) == IF id \in DOMAIN containers THEN containers[id].dataPoints ELSE <<>>

\* the newest point of the series is not older than the window
NewestInWindow(series, t, duration) ==
    /\ series # <<>>
    /\ Timestamp(series[Len(series)]) >= t - duration

\* C23: GetAverages reports data exactly when the id has a series whose
\* newest point lies in the window, whatever the values are; for an unknown
\* id, an empty series or a newest point older than the window it returns
\* 0, 0, false.
C23_HasDataIffNewestInWindow ==
    [][\A p \in Procs :
         Returns(p) =>
            LET inWindow == NewestInWindow(SeriesOf(call[p].id), clock, call[p].duration)
                ret == call'[p].ret[1]
            IN /\ ret.hasData = inWindow
               /\ ~inWindow => ret = NoData]_vars

\* no data was returned for an id whose only sample is older than the window
C23_Witness ==
    \E p \in Procs :
       /\ At(p, "GetAverages", "returned")
       /\ call[p].ret[1] = NoData
       /\ SeriesOf(call[p].id) # <<>>
       /\ ~NewestInWindow(SeriesOf(call[p].id), clock, call[p].duration)

\* ------------------------------------------------------------------- C24
\* goroutine p scans web1 over five minutes during minute 11, the samples of
\* the minutes 0..11 being recorded
ScansAtMinute11(p) ==
    /\ Scans(p)
    /\ call[p].id = "web1"
    /\ call[p].duration = 5 * 60
    /\ clock \div 60 = 11
    /\ Len(recorded["web1"]) = 12

\* C24 as stated: with samples at the minute marks 0..11, cpu 10 * (minute +
\* 1), the five-minute averages taken at minute 11 have data and are the
\* mean of the minutes 7..11, the sample of minute 6 left out: cpu 500 / 5.
C24_Original ==
    [][\A p \in Procs :
         ScansAtMinute11(p) =>
            /\ call'[p].ret[1].hasData
            /\ call'[p].ret[1].cpuAvg = Quot(80 + 90 + 100 + 110 + 120, 5)]_vars

\* C24, amended: the averages have data; taken exactly at the mark of minute
\* 11 they are the mean of the minutes 6..11, the sample of minute 6 being
\* exactly five minutes old and not before the cutoff; taken later in minute
\* 11 they are the mean of the minutes 7..11.
C24_CutoffInclusive ==
    [][\A p \in Procs :
         ScansAtMinute11(p) =>
            /\ call'[p].ret[1].hasData
            /\ call'[p].ret[1].cpuAvg =
                  IF clock = 11 * 60
                  THEN Quot(70 + 80 + 90 + 100 + 110 + 120, 6)
                  ELSE Quot(80 + 90 + 100 + 110 + 120, 5)]_vars

\* the averages taken exactly at the mark of minute 11 cover six samples
C24_Witness ==
    /\ At("p2", "GetAverages", "returned")
    /\ clock = 11 * 60
    /\ Len(recorded["web1"]) = 12
    /\ call["p2"].ret[1].cpuAvg = Quot(570, 6)

\* ------------------------------------------------------------------- C25
\* goroutine p is inside RecordStats or GetAverages, past the first lock
InProgress(p) ==
    /\ call[p].op \in {"RecordStats", "GetAverages"}
    /\ call[p].pc \notin {"lock", "rlock", "returned"}

\* C25 as stated: a RecordStats or GetAverages in progress on one id never
\* keeps a GetAverages of another id from going on: the lock of the
\* collection, which that GetAverages takes first, can be taken for reading.
C25_Original ==
    \A p \in Procs, q \in Procs :
       (/\ InProgress(p)
        /\ At(q, "GetAverages", "rlock")
        /\ call[q].id # call[p].id)
       => CanRLock(hmMu)

\* ------------------------------------------------------------------- C26
\* goroutine p takes the step of CleanupContainer that deletes
Deletes(p) == At(p, "CleanupContainer", "delete") /\ call'[p].op = "idle"

\* C26: CleanupContainer(id) removes the series of id and nothing else, and
\* nothing at all for an unknown id; from then until a sample of id is
\* recorded the id has no series and GetAverages returns 0, 0, false for it;
\* the series the next sample creates holds the samples recorded since.
C26_CleanupRemovesOnlyThatSeries ==
    /\ [][\A p \in Procs :
            Deletes(p) =>
               /\ DOMAIN containers' = DOMAIN containers \ {call[p].id}
               /\ \A x \in DOMAIN containers' : containers'[x] = containers[x]]_vars
    /\ [][\A p \in Procs :
            (Returns(p) /\ recorded[call[p].id] = <<>>) => call'[p].ret[1] = NoData]_vars
    /\ [](\A id \in EntityIDs :
            IF recorded[id] = <<>>
            THEN id \in DOMAIN containers =>
                    containers[id].mu.w # "" /\ containers[id].dataPoints = <<>>
            ELSE /\ id \in DOMAIN containers
                 /\ containers[id].mu.w = "" => containers[id].dataPoints = recorded[id])

\* web1, whose averages a caller still holds, was cleaned up and db1 was not
C26_Witness ==
    /\ At("p2", "GetAverages", "returned")
    /\ call["p2"].id = "web1"
    /\ call["p2"].ret[1].hasData
    /\ call["p1"].op = "idle"
    /\ "web1" \notin DOMAIN containers
    /\ "db1" \in DOMAIN containers

\* ------------------------------------------------------------------- C27
\* C27: the AlertHistory never holds more than 100 alerts: after n triggered
\* alerts it holds the last min(n, 100) of them, oldest first, and an alert
\* leaves it only as the oldest entry of a full history when the next alert
\* is added.
C27_LastHundredKept ==
    /\ [](/\ Len(history) = IF nextId < 100 THEN nextId ELSE 100
          /\ \A k \in 1..Len(history) :
                /\ history[k].ID = nextId - Len(history) + k
                /\ history[k].Type = LogType(history[k].ID))
    /\ [][\A k \in 1..Len(history) :
            history[k].ID \notin IDs(history') =>
               k = 1 /\ Len(history) = 100 /\ nextId' = nextId + 1]_vars

\* the first alert has been dropped from a full history
C27_Witness ==
    /\ nextId > 100
    /\ Len(history) = 100
    /\ history[1].ID = nextId - 99

\* ------------------------------------------------------------------- C28
\* the step is a call of Acknowledge
Acknowledges == ackRet'.calls = ackRet.calls + 1 /\ ackRet'.op = "Acknowledge"

\* C28: Acknowledge(id) reports not found and changes nothing when no entry
\* has the id; otherwise it succeeds, the entry is acknowledged afterwards
\* and the other entries are as before, and when the entry was acknowledged
\* already the history is as before.  No step changes the id of an entry or
\* any field of it but Acknowledged.
C28_AcknowledgeIdempotent ==
    /\ [][Acknowledges =>
            LET id == ackRet'.id
            IN IF id \notin IDs(history)
               THEN ~ackRet'.found /\ history' = history
               ELSE /\ ackRet'.found
                    /\ Len(history') = Len(history)
                    /\ \A n \in 1..Len(history) :
                          /\ history[n].ID = id => history'[n].Acknowledged
                          /\ history[n].ID # id => history'[n] = history[n]
                          /\ history[n].Acknowledged => history'[n] = history[n]]_vars
    /\ [][\A n \in 1..Len(history) :
            \A m \in 1..Len(history') :
               history'[m].ID = history[n].ID =>
                  [history'[m] EXCEPT !.Acknowledged = history[n].Acknowledged]
                     = history[n]]_vars

\* an entry that was acknowledged already was acknowledged again
C28_Witness ==
    /\ ackRet.op = "Acknowledge"
    /\ ackRet.found
    /\ ackRet.again
    /\ \E n \in 1..Len(history) : history[n].ID = ackRet.id /\ history[n].Acknowledged

\* the positive float64 mant * 2^exp and the Duration of ns nanoseconds,
\* written out
Float(mant, exp) == [class |-> "finite", neg |-> FALSE, mant |-> mant, exp |-> exp]
Nanoseconds(ns) == [neg |-> FALSE, ns |-> ns]

\* ------------------------------------------------------------------- C29
\* what the view may depend on: the enabled flag, the two thresholds, the
\* interval and whether a URL is set
Redacted(alerts) ==
    <<alerts.Enabled, alerts.CPUThreshold, alerts.MemoryThreshold, alerts.CheckInterval,
      alerts.WebhookURL # "">>

\* C29: the view NewRouter builds has the fields Enabled, CPUThreshold,
\* MemoryThreshold, CheckInterval and WebhookEnabled and depends on the
\* configuration only through the flag, the thresholds, the interval and
\* whether a URL is set: two starts whose configurations agree on these, so
\* also two that differ only in which URL is set, get the same view.
C29_ViewHidesURL ==
    /\ \A r \in Runs :
          view[r] # <<>> =>
             DOMAIN view[r][1].config =
                {"Enabled", "CPUThreshold", "MemoryThreshold", "CheckInterval",
                 "WebhookEnabled"}
    /\ \A r1 \in Runs, r2 \in Runs :
          (/\ view[r1] # <<>>
           /\ view[r2] # <<>>
           /\ view[r1][1].AlertMonitor = view[r2][1].AlertMonitor
           /\ Redacted(loaded[r1][1]) = Redacted(loaded[r2][1]))
          => view[r1][1].config = view[r2][1].config

\* two starts with different URLs, a monitor and thresholds and an interval
\* from the environment have the same view
C29_Witness ==
    /\ view[1] # <<>>
    /\ view[2] # <<>>
    /\ view[1][1].AlertMonitor
    /\ view[2][1].AlertMonitor
    /\ loaded[1][1].WebhookURL # ""
    /\ loaded[2][1].WebhookURL # ""
    /\ loaded[1][1].WebhookURL # loaded[2][1].WebhookURL
    /\ view[1][1].config = view[2][1].config
    /\ view[1][1].config.WebhookEnabled
    /\ view[1][1].config.CheckInterval = "1h30m0s"
    /\ view[1][1].config.CPUThreshold = Float(<<7, 0, 3, 6, 8, 7, 4, 4, 1, 7, 7, 6, 6, 4, 0, 0>>, -47)

\* ------------------------------------------------------------------- C30
\* the thresholds and intervals of SpecLoad that are to be taken over, with
\* their values as float64 and in nanoseconds; every other one is to leave
\* the default in place
ValidThresholds ==
    {<<<<"5", "0">>, Float(<<7, 0, 3, 6, 8, 7, 4, 4, 1, 7, 7, 6, 6, 4, 0, 0>>, -47)>>,
     <<<<"9", "5">>, Float(<<6, 6, 8, 5, 0, 3, 0, 6, 9, 6, 8, 7, 8, 0, 8, 0>>, -46)>>,
     <<<<"1", "0", "0">>, Float(<<7, 0, 3, 6, 8, 7, 4, 4, 1, 7, 7, 6, 6, 4, 0, 0>>, -46)>>,
     <<<<"0", ".", "5">>, Float(<<4, 5, 0, 3, 5, 9, 9, 6, 2, 7, 3, 7, 0, 4, 9, 6>>, -53)>>,
     <<<<"1", "e", "2">>, Float(<<7, 0, 3, 6, 8, 7, 4, 4, 1, 7, 7, 6, 6, 4, 0, 0>>, -46)>>,
     <<<<"1", "E", "2">>, Float(<<7, 0, 3, 6, 8, 7, 4, 4, 1, 7, 7, 6, 6, 4, 0, 0>>, -46)>>,
     <<<<"5", "e", "-", "1">>, Float(<<4, 5, 0, 3, 5, 9, 9, 6, 2, 7, 3, 7, 0, 4, 9, 6>>, -53)>>,
     <<<<"0", "x", "1", ".", "9", "p", "6">>, Float(<<7, 0, 3, 6, 8, 7, 4, 4, 1, 7, 7, 6, 6, 4, 0, 0>>, -46)>>,
     <<<<"1", "_", "0">>, Float(<<5, 6, 2, 9, 4, 9, 9, 5, 3, 4, 2, 1, 3, 1, 2, 0>>, -49)>>,
     <<<<"1", "0", "0", ".", "0", "0", "0", "0", "0", "0", "0", "0", "0", "0", "0", "0", "0", "0", "1">>, Float(<<7, 0, 3, 6, 8, 7, 4, 4, 1, 7, 7, 6, 6, 4, 0, 0>>, -46)>>,
     <<<<"9", ".", "5", "e", "1">>, Float(<<6, 6, 8, 5, 0, 3, 0, 6, 9, 6, 8, 7, 8, 0, 8, 0>>, -46)>>}
ValidIntervals ==
    {<<<<"9", "0", "s">>, Nanoseconds(<<9, 0, 0, 0, 0, 0, 0, 0, 0, 0, 0>>)>>,
     <<<<"1", "h">>, Nanoseconds(<<3, 6, 0, 0, 0, 0, 0, 0, 0, 0, 0, 0, 0>>)>>,
     <<<<"1", "m", "3", "0", "s">>, Nanoseconds(<<9, 0, 0, 0, 0, 0, 0, 0, 0, 0, 0>>)>>,
     <<<<"1", ".", "5", "h">>, Nanoseconds(<<5, 4, 0, 0, 0, 0, 0, 0, 0, 0, 0, 0, 0>>)>>,
     <<<<"5", "0", "0", "m", "s">>, Nanoseconds(<<5, 0, 0, 0, 0, 0, 0, 0, 0>>)>>,
     <<<<".", "5", "s">>, Nanoseconds(<<5, 0, 0, 0, 0, 0, 0, 0, 0>>)>>,
     <<<<"1", "0", "0", "u", "s">>, Nanoseconds(<<1, 0, 0, 0, 0, 0>>)>>,
     <<<<"1", "n", "s">>, Nanoseconds(<<1>>)>>,
     <<<<"1", ".">> \o Zeros(310) \o <<"1", "s">>, Nanoseconds(<<1, 0, 0, 0, 0, 0, 0, 0, 0, 0>>)>>}

\* the value due for the text cs, given the valid texts and the default
Due(cs, valid, default) ==
    IF \E v \in valid : v[1] = cs THEN (CHOOSE v \in valid : v[1] = cs)[2] ELSE default

\* C30: whatever the environment holds, the AlertConfig parseAlertConfig
\* returns has 0 < CPUThreshold <= 100, 0 < MemoryThreshold <= 100 and
\* CheckInterval > 0: a value in range is taken over, and an unset,
\* unparsable or out-of-range one leaves the default 80, 90 or 30s.
C30_ConfigValidated ==
    \A r \in Runs :
       loaded[r] # <<>> =>
          LET e == env[r][1]
              c == loaded[r][1]
          IN /\ Positive(c.CPUThreshold)
             /\ AtMost(c.CPUThreshold, 100)
             /\ Positive(c.MemoryThreshold)
             /\ AtMost(c.MemoryThreshold, 100)
             /\ PositiveDuration(c.CheckInterval)
             /\ c.CPUThreshold
                   = Due(e.ALERTS_CPU_THRESHOLD, ValidThresholds,
                         Float(<<5, 6, 2, 9, 4, 9, 9, 5, 3, 4, 2, 1, 3, 1, 2, 0>>, -46))
             /\ c.MemoryThreshold
                   = Due(e.ALERTS_MEMORY_THRESHOLD, ValidThresholds,
                         Float(<<6, 3, 3, 3, 1, 8, 6, 9, 7, 5, 9, 8, 9, 7, 6, 0>>, -46))
             /\ c.CheckInterval
                   = Due(e.ALERTS_CHECK_INTERVAL, ValidIntervals,
                         Nanoseconds(<<3, 0, 0, 0, 0, 0, 0, 0, 0, 0, 0>>))

\* a threshold just above 100, a NaN and an interval that rounds to no
\* nanosecond were read, and the defaults are in place
C30_Witness ==
    /\ loaded[1] # <<>>
    /\ env[1][1].ALERTS_CPU_THRESHOLD = <<"1", "0", "0", ".", "0", "0", "0", "0", "0", "0", "0", "0", "0", "0", "0", "0", "0", "1">>
    /\ env[1][1].ALERTS_MEMORY_THRESHOLD = <<"2", "0", "0">>
    /\ env[1][1].ALERTS_CHECK_INTERVAL = <<"0", ".", "4", "n", "s">>
    /\ loaded[1][1].CPUThreshold = Float(<<5, 6, 2, 9, 4, 9, 9, 5, 3, 4, 2, 1, 3, 1, 2, 0>>, -46)
    /\ loaded[1][1].MemoryThreshold = Float(<<6, 3, 3, 3, 1, 8, 6, 9, 7, 5, 9, 8, 9, 7, 6, 0>>, -46)
    /\ loaded[1][1].CheckInterval = Nanoseconds(<<3, 0, 0, 0, 0, 0, 0, 0, 0, 0, 0>>)

\* the filter modes the specification documents
FilterModes == {"all", "critical"}

\* C31 as claimed: the AlertsFilter of the AlertConfig parseAlertConfig
\* returns, which is the one the Monitor is built with and triggerAlert reads,
\* is always one of the two documented modes.
C31_Original ==
    \A r \in Runs : loaded[r] # <<>> => loaded[r][1].AlertsFilter \in FilterModes

\* C32: a stop or restart request with a host parameter is answered 202 with
\* status "pending" before its Docker operation runs, and the response is the
\* same however the operation ends; a request without a host parameter is
\* answered 400 and its operation never starts; a response once written does
\* not change.
C32_AnsweredBeforeOperation ==
    /\ [](\A n \in Requests :
            LET req == requests[n]
            IN /\ req.docker # "none" =>
                     /\ req.host # ""
                     /\ req.response = <<JsonResponse(StatusAccepted, Initiated(req.action),
                                                      "pending")>>
               /\ req.pc = "returned" /\ req.host = "" =>
                     /\ req.docker = "none"
                     /\ req.response # <<>>
                     /\ req.response[1].code = StatusBadRequest
               /\ req.pc \in {"go", "returned"} => req.response # <<>>)
    /\ [][\A n \in Requests :
            requests[n].response # <<>> => requests'[n].response = requests[n].response]_vars

\* a stop whose operation failed and a restart whose operation went well,
\* both answered before
C32_Witness ==
    \E n, m \in Requests :
        /\ requests[n].action = "stop" /\ requests[n].docker = "failed"
        /\ requests[m].action = "restart" /\ requests[m].docker = "ok"

\* the keys a cycle found tracked and the snapshot lists again
Tracked(i) == DOMAIN cyc[i].before[1] \cap SnapshotKeys(cyc[i].seen[1])

\* C33: for a tracked entity reported in state cur after state prev, the
\* cycle emits exactly one container-stopped alert if cur differs from prev
\* and is exited or dead, exactly one container-started alert if cur is
\* running and prev is exited, dead or created, and no lifecycle alert for any
\* other pair, prev = cur included; the tracked state becomes cur.
C33_AlertByStatePair ==
    \A i \in Processed :
        \A k \in Tracked(i) :
            LET prev == cyc[i].before[1][k]
                cur == ReportedState(cyc[i].seen[1], k)
                emitted == LifecycleFor(cyc[i].alerts, k)
            IN /\ (prev # cur /\ cur \in {"exited", "dead"})
                     => emitted = <<AlertContainerStopped>>
               /\ (cur = "running" /\ prev \in {"exited", "dead", "created"})
                     => emitted = <<AlertContainerStarted>>
               /\ (prev = cur \/ cur \notin {"exited", "dead", "running"}) => emitted = <<>>
               /\ (cur = "running" /\ prev \in {"paused", "restarting", "removing"})
                     => emitted = <<>>
               /\ containerStates[k] = cur

\* a tracked container goes from exited to dead
C33_Witness ==
    \E i \in Processed :
        \E k \in Tracked(i) :
            /\ cyc[i].before[1][k] = "exited"
            /\ ReportedState(cyc[i].seen[1], k) = "dead"
            /\ LifecycleFor(cyc[i].alerts, k) = <<AlertContainerStopped>>

\* the points of a series from index first on are all in the window
AllInWindow(series, first, cutoff) ==
    \A n \in first..Len(series) : Timestamp(series[n]) >= cutoff

\* where the longest suffix of the series that lies in the window begins
\* (Len + 1 when the newest point is outside)
SuffixStart(series, cutoff) ==
    CHOOSE first \in 1..(Len(series) + 1) :
        /\ AllInWindow(series, first, cutoff)
        /\ first > 1 => ~AllInWindow(series, first - 1, cutoff)

\* the sum of field f (1: cpu, 2: memory) of the points of a series
Total(series, f) ==
    LET F[n \in 0..Len(series)] == IF n = 0 THEN 0 ELSE F[n - 1] + series[n][f]
    IN F[Len(series)]

NonDecreasing(series) ==
    \A n \in 1..(Len(series) - 1) : Timestamp(series[n]) <= Timestamp(series[n + 1])

\* C34: GetAverages returns the mean of the longest suffix of the series whose
\* points all lie in the window (no data if that suffix is empty); with
\* non-decreasing timestamps that suffix is all the in-window points of the
\* series.
C34_MeanOfInWindowSuffix ==
    [][\A p \in Procs :
          Scans(p) =>
             LET series == containers[call[p].id].dataPoints
                 cutoff == clock - call[p].duration
                 suffix == SubSeq(series, SuffixStart(series, cutoff), Len(series))
                 ret == call'[p].ret[1]
             IN /\ ret.hasData <=> suffix # <<>>
                /\ ret.hasData =>
                      /\ ret.cpuAvg = Quot(Total(suffix, 1), Len(suffix))
                      /\ ret.memAvg = Quot(Total(suffix, 2), Len(suffix))
                /\ NonDecreasing(series) =>
                      suffix = SelectSeq(series, LAMBDA dp : Timestamp(dp) >= cutoff)]_vars

\* averages were returned for a series of three points in which an in-window
\* point is stored before an out-of-window one: only the newest was counted
C34_Witness ==
    /\ At("p2", "GetAverages", "returned")
    /\ "web1" \in DOMAIN containers
    /\ LET series == containers["web1"].dataPoints
           cutoff == clock - call["p2"].duration
       IN /\ Len(series) = 3
          /\ Timestamp(series[1]) >= cutoff
          /\ Timestamp(series[2]) < cutoff
          /\ Timestamp(series[3]) >= cutoff
          /\ call["p2"].ret = <<[cpuAvg |-> Quot(30, 1), memAvg |-> Quot(15, 1),
                                 hasData |-> TRUE]>>

\* C35: once a cycle has processed a successfully fetched snapshot, the keys
\* of the tracked-state map are exactly the keys the snapshot lists, each with
\* the state the snapshot reports, so the map is never larger than the
\* snapshot.
C35_TrackedMirrorsSnapshot ==
    \A i \in Processed :
        /\ DOMAIN containerStates = SnapshotKeys(cyc[i].seen[1])
        /\ \A k \in DOMAIN containerStates :
              containerStates[k] = ReportedState(cyc[i].seen[1], k)
        /\ Cardinality(DOMAIN containerStates) <= Cardinality(SnapshotKeys(cyc[i].seen[1]))

\* the map held two keys, the snapshot lists one of them in another state
C35_Witness ==
    \E i \in Processed :
        /\ Cardinality(DOMAIN cyc[i].before[1]) = 2
        /\ \E k \in DOMAIN cyc[i].before[1] :
              /\ SnapshotKeys(cyc[i].seen[1]) = {k}
              /\ cyc[i].before[1][k] # ReportedState(cyc[i].seen[1], k)

\* C36: in a cycle whose snapshot lacks a host, the tracked keys of that host
\* are deleted and get no lifecycle alert; in the first snapshot in which the
\* host answers again, its keys are first sightings: no lifecycle alert,
\* also for a container whose state is not the one it was tracked in before
\* the outage, and the reported state is recorded.
C36_OutageForgetsHost ==
    \A i \in Processed :
        /\ \A k \in KeysOf(Hosts \ DOMAIN cyc[i].seen[1]) \cap DOMAIN cyc[i].before[1] :
              /\ k \notin DOMAIN containerStates
              /\ LifecycleFor(cyc[i].alerts, k) = <<>>
              /\ k \in DOMAIN lost /\ lost[k] = cyc[i].before[1][k]
        /\ \A k \in DOMAIN cyc[i].lostBefore \cap SnapshotKeys(cyc[i].seen[1]) :
              /\ k \notin DOMAIN cyc[i].before[1]
              /\ LifecycleFor(cyc[i].alerts, k) = <<>>
              /\ containerStates[k] = ReportedState(cyc[i].seen[1], k)

\* the container of a host was running before the outage of the host, and
\* exited in the first snapshot after it
C36_Witness ==
    \E i \in Processed :
        \E k \in DOMAIN cyc[i].lostBefore \cap SnapshotKeys(cyc[i].seen[1]) :
            /\ cyc[i].lostBefore[k] = "running"
            /\ ReportedState(cyc[i].seen[1], k) = "exited"

\* the goroutines holding the lock mu, for writing or for reading
Holders(mu) == (IF mu.w = "" THEN {} ELSE {mu.w}) \cup mu.r

\* C37: a goroutine holds the lock of a series only while it holds the lock
\* of the collection (the outer lock is taken first and released last), a
\* goroutine in CleanupContainer holds no lock of a series, and every call of
\* RecordStats, GetAverages or CleanupContainer that is under way returns.
C37_NoDeadlock ==
    /\ [](\A id \in DOMAIN containers :
             /\ Holders(containers[id].mu) \subseteq Holders(hmMu)
             /\ \A p \in Holders(containers[id].mu) : call[p].op # "CleanupContainer")
    /\ \A p \in Procs : (call[p].op # "idle") ~> (call[p].op = "idle")

\* RecordStats holds both locks of web1 while the other goroutine waits for
\* the outer lock in CleanupContainer of the same id
C37_Witness ==
    /\ At("p1", "RecordStats", "append")
    /\ call["p1"].id = "web1"
    /\ At("p2", "CleanupContainer", "lock")
    /\ call["p2"].id = "web1"

\* goroutine p is in RecordStats and has appended its data point
Appended(p) == call[p].op = "RecordStats" /\ call[p].pc \in {"trim", "unlock"}

\* C38: the series RecordStats(id) has appended its data point to is the one
\* the collection holds for id, with that point as its newest, until the call
\* returns; GetAverages(id) scans exactly the points appended since
\* CleanupContainer(id) last removed the series (the later ones all, the
\* earlier ones not), and finds no series only when there are none.
C38_NoWriteToRemovedSeries ==
    /\ [](\A p \in Procs :
            Appended(p) =>
               /\ call[p].id \in DOMAIN containers
               /\ LET series == containers[call[p].id].dataPoints
                  IN /\ series # <<>>
                     /\ series[Len(series)] = DataPoint(call[p].stats)
                     /\ series = recorded[call[p].id])
    /\ [][\A p \in Procs :
            /\ Scans(p) =>
                  call'[p].ret = <<averages(recorded[call[p].id], clock, call[p].duration)>>
            /\ (At(p, "GetAverages", "lookup") /\ call'[p].pc = "returned") =>
                  recorded[call[p].id] = <<>>]_vars

\* RecordStats(web1) has appended and is about to return while
\* CleanupContainer(web1), called in the meantime, waits for the lock
C38_Witness ==
    /\ At("p1", "RecordStats", "unlock")
    /\ call["p1"].id = "web1"
    /\ At("p2", "CleanupContainer", "lock")
    /\ call["p2"].id = "web1"
    /\ recorded["web1"] # <<>>

\* no monitorLoop goroutine was ever launched
Unlaunched == \A i \in Loops : pc[i] = "idle"

\* C39: on a Monitor whose loop was never launched, Stop() finds the wait
\* group at zero and returns; no check cycle has run before it and none runs
\* or starts after it.
C39_StopWithoutLoop ==
    /\ []((stopPc # "none" /\ Unlaunched) =>
             /\ wg = 0
             /\ \A i \in Loops : cyclesStarted[i] = 0
             /\ history = <<>>)
    /\ [][(stopPc # "none" /\ Unlaunched) =>
             /\ Unlaunched'
             /\ cyclesStarted' = cyclesStarted]_vars
    /\ (stopPc = "waiting" /\ Unlaunched) ~> (stopPc = "returned")

\* Stop() has returned on a Monitor that Start() was never called on
C39_Witness == stopPc = "returned" /\ Unlaunched /\ starts = 0 /\ config.Enabled

====
